---- MODULE Spec2Model ----
(***************************************************************************)
(* The retrieval-budgeting pipeline of the sermon-transcripts repository   *)
(* (the POST handler of the ai-context / ai-search routes): query          *)
(* classification and expansion, embedding, primary vector query, adaptive *)
(* cutoff, series (sibling) expansion, budget allocation and context       *)
(* assembly.                                                               *)
(*                                                                         *)
(* Conventions.                                                            *)
(*  - A JavaScript string is a sequence of one-character strings, so that  *)
(*    trim() and toLowerCase() are computed, not assumed.                  *)
(*  - A similarity score is an integer number of thousandths (910 is 0.91),*)
(*    so GAP_THRESHOLD 0.03 is 30; subtraction is exact.                   *)
(*  - A JavaScript Map is a sequence of <<key, value>> pairs in insertion  *)
(*    order (the order Map.values() iterates in).                          *)
(***************************************************************************)
EXTENDS Integers, Sequences, FiniteSets, TLC

VARIABLES
    pc,                 \* position of POST: the await it is suspended at
    query,              \* the `query` field of the request body (a JS value)
    clsCall,            \* classifyQuery: state of the call and the provider's response
    expCall,            \* expandQuery: state of the call and the provider's response
    scope,              \* result of classifyQuery
    expandedQuery,      \* result of expandQuery
    budget,             \* BUDGET_PROFILES[scope]
    embedInput,         \* the text handed to embed()
    queryEmbedding,     \* the vector embed() returned
    indexQuery,         \* the last request sent to the vector index
    allScoredChunks,    \* usable primary matches (metadata and score)
    adaptiveCutoff,     \* findAdaptiveCutoff's result
    qualityChunks,      \* allScoredChunks.slice(0, adaptiveCutoff)
    topSeriesIDs,       \* Set<string>, in insertion order
    seriesIdx,          \* position of the for-of over topSeriesIDs
    siblingsBySermon,   \* Map<sermonID, ChunkMetadata[]>
    seriesSiblingChunks,\* [...siblingsBySermon.values()].flat()
    mainBudget,         \* maxContextChunks - siblingReserved
    sermonChunkCounts,  \* Map<sermonID, number>
    chunks,             \* the final passage list
    loopIdx,            \* position of the running fill loop
    mainTaken,          \* history: how many entries of chunks the first fill loop pushed
    response,           \* what POST returned (or threw)
    failure,            \* history: the stage whose awaited call rejected ("" if none)
    calls,              \* number of external calls started, per kind
    cancelled,          \* the caller has aborted the request
    cutScores,          \* findAdaptiveCutoff alone: its scores argument
    cutMax,             \* findAdaptiveCutoff alone: its maxContextChunks argument
    cutResult,          \* findAdaptiveCutoff alone: its result (-1 before the call)
    profiles,           \* the module-level object BUDGET_PROFILES of the route
    scripts,            \* two requests on one server: the replies each one is given
    parked,             \* two requests on one server: the locals of the suspended one
    current,            \* two requests on one server: the one that is running
    attempts,           \* rate-limit.ts: Map<ip, { count, resetTime }>
    now,                \* rate-limit.ts: Date.now()
    auth,               \* upload/auth POST: the requests being handled
    uploadPassword,     \* process.env.UPLOAD_PASSWORD ("" when unset)
    abortRef,           \* AiSearchResult: abortRef.current (0 for null)
    contextCacheRef,    \* AiSearchResult: contextCacheRef.current
    aiCache,            \* AiSearchResult: the entries of the session answer cache
    ui,                 \* AiSearchResult: response, sources, loading, error, submitted
    submits,            \* AiSearchResult: the invocations of handleSubmit
    staleWrites         \* history: what a superseded invocation wrote

pipelineVars == <<pc, query, clsCall, expCall, scope, expandedQuery, budget,
                  embedInput, queryEmbedding, indexQuery, allScoredChunks,
                  adaptiveCutoff, qualityChunks, topSeriesIDs, seriesIdx,
                  siblingsBySermon, seriesSiblingChunks, mainBudget,
                  sermonChunkCounts, chunks, loopIdx, mainTaken, response, failure,
                  calls, cancelled>>
cutoffVars == <<cutScores, cutMax, cutResult>>
serverVars == <<profiles, scripts, parked, current>>
limiterVars == <<attempts, now, auth, uploadPassword>>
clientVars == <<abortRef, contextCacheRef, aiCache, ui, submits, staleWrites>>
\* everything that is not a local of the running POST
outsideVars == <<cutoffVars, serverVars, limiterVars, clientVars>>
vars == <<pipelineVars, outsideVars>>

----------------------------------------------------------------------------
(* Bounds of the model *)

\* sources in a primary reply whose per-source cap binds
FewSources == 3
\* sources in a primary reply wide enough to fill the main budget
ManySources == 10
\* sermons outside the primary result that a series query returns
FreshSermons == 10
\* findAdaptiveCutoff alone: how far the score lists reach beyond minKeep
TailLen == 4

----------------------------------------------------------------------------
(* Budget profiles *)

Scopes == {"narrow", "medium", "broad"}

BUDGET_PROFILES ==
    [narrow |-> [topK |-> 100, maxContextChunks |-> 80, maxChunksPerSermon |-> 12,
                 siblingReserve |-> 12, maxSermonsForSeries |-> 40],
     medium |-> [topK |-> 120, maxContextChunks |-> 100, maxChunksPerSermon |-> 16,
                 siblingReserve |-> 20, maxSermonsForSeries |-> 60],
     broad  |-> [topK |-> 150, maxContextChunks |-> 120, maxChunksPerSermon |-> 20,
                 siblingReserve |-> 28, maxSermonsForSeries |-> 100]]

NoBudget == [topK |-> 0, maxContextChunks |-> 0, maxChunksPerSermon |-> 0,
             siblingReserve |-> 0, maxSermonsForSeries |-> 0]

GAP_THRESHOLD == 30
MAX_SIBLING_CHUNKS_PER_SERMON == 3

----------------------------------------------------------------------------
(* JavaScript strings *)

Whitespace == {" ", "\t", "\n"}

UpperCase == <<"A","B","C","D","E","F","G","H","I","J","K","L","M",
               "N","O","P","Q","R","S","T","U","V","W","X","Y","Z">>
LowerCase == <<"a","b","c","d","e","f","g","h","i","j","k","l","m",
               "n","o","p","q","r","s","t","u","v","w","x","y","z">>

RECURSIVE trimStart(_)
trimStart(s) ==
    IF s = <<>> THEN s
    ELSE IF Head(s) \in Whitespace THEN trimStart(Tail(s)) ELSE s

RECURSIVE trimEnd(_)
trimEnd(s) ==
    IF s = <<>> THEN s
    ELSE IF s[Len(s)] \in Whitespace THEN trimEnd(SubSeq(s, 1, Len(s) - 1)) ELSE s

trim(s) == trimEnd(trimStart(s))

toLowerCaseChar(c) ==
    IF \E i \in 1..Len(UpperCase) : UpperCase[i] = c
    THEN LowerCase[CHOOSE i \in 1..Len(UpperCase) : UpperCase[i] = c]
    ELSE c

toLowerCase(s) == [i \in 1..Len(s) |-> toLowerCaseChar(s[i])]

StrNarrow == <<"n","a","r","r","o","w">>
StrMedium == <<"m","e","d","i","u","m">>
StrBroad  == <<"b","r","o","a","d">>

----------------------------------------------------------------------------
(* JavaScript values of the request body's `query` field *)

JsUndefined == [type |-> "undefined", chars |-> <<>>, num |-> 0]
JsNumber(n) == [type |-> "number", chars |-> <<>>, num |-> n]
JsString(s) == [type |-> "string", chars |-> s, num |-> 0]

\* !v
falsy(v) ==
    \/ v.type = "undefined"
    \/ v.type = "number" /\ v.num = 0
    \/ v.type = "string" /\ v.chars = <<>>

StrGrace == <<"g","r","a","c","e">>

QueryValues ==
    { JsUndefined, JsNumber(0), JsNumber(7), JsString(<<>>), JsString(<<" ", "\t">>),
      JsString(<<" ">> \o StrGrace \o <<" ">>) }

\* the guard of the 400 response
queryRejectedNoTrim(v) == falsy(v) \/ v.type # "string"

queryRejected(v) == falsy(v) \/ v.type # "string" \/ Len(trim(v.chars)) = 0

----------------------------------------------------------------------------
(* The auxiliary model's responses *)

\* kind: "none" no response yet; "throw" the call rejected; "null" the response
\* carries no content (choices[0]?.message?.content is undefined or null);
\* "content" it carries the string chars.
NoReply == [kind |-> "none", chars |-> <<>>]
ThrowReply == [kind |-> "throw", chars |-> <<>>]
NullReply == [kind |-> "null", chars |-> <<>>]
ContentReply(s) == [kind |-> "content", chars |-> s]

ClassifierReplies ==
    { ThrowReply, NullReply,
      ContentReply(StrNarrow),
      ContentReply(<<" ", "N">> \o Tail(StrNarrow) \o <<"\n">>),
      ContentReply(StrMedium),
      ContentReply(<<"B","R","O","A","D">>),
      ContentReply(StrNarrow \o <<".">>),
      ContentReply(StrBroad \o <<" ">> \o StrNarrow),
      ContentReply(<<>>) }

StrExpanded == StrGrace \o <<" ">> \o <<"m","e","r","c","y">>

ExpanderReplies ==
    { ThrowReply, NullReply, ContentReply(<<>>), ContentReply(<<" ", "\n">>),
      ContentReply(<<" ">> \o StrExpanded \o <<"\n">>) }

\* classifyQuery's result for a response
classifyQueryBroadDefault(reply) ==
    IF reply.kind = "content"
    THEN LET raw == toLowerCase(trim(reply.chars))
         IN  IF raw = StrNarrow THEN "narrow"
             ELSE IF raw = StrMedium THEN "medium"
             ELSE IF raw = StrBroad THEN "broad"
             ELSE "broad"
    ELSE "medium"

classifyQuery(reply) ==
    IF reply.kind = "content"
    THEN LET raw == toLowerCase(trim(reply.chars))
         IN  IF raw = StrNarrow THEN "narrow"
             ELSE IF raw = StrMedium THEN "medium"
             ELSE IF raw = StrBroad THEN "broad"
             ELSE "medium"
    ELSE "medium"

\* expandQuery's result for its argument and a response
expandQueryKeepsBlank(q, reply) ==
    IF reply.kind = "content" THEN trim(reply.chars) ELSE q

expandQuery(q, reply) ==
    IF reply.kind = "content" /\ trim(reply.chars) # <<>>
    THEN trim(reply.chars)
    ELSE q

----------------------------------------------------------------------------
(* Passage records and the vector index's replies *)

SeriesName == <<"series-1", "series-2">>

\* ChunkMetadata of chunk i of sermon s, stored with series g
Chunk(s, g, i) ==
    [sermonID |-> s,
     title |-> <<"title", s, i % 2>>,
     preacher |-> <<"preacher", s % 2>>,
     preachDate |-> IF i % 2 = 0 THEN "2024-01-07" ELSE "",
     bibleText |-> IF s % 2 = 1 THEN "John 3" ELSE "",
     series |-> g,
     chunkIndex |-> i,
     text |-> <<"text", s, i>>]

\* one element of `matches`: metadata and score may each be absent
Match(c, sc) == [hasMetadata |-> TRUE, metadata |-> c, hasScore |-> TRUE, score |-> sc]
MatchNoMetadata(sc) ==
    [hasMetadata |-> FALSE, metadata |-> Chunk(0, "", 0), hasScore |-> TRUE, score |-> sc]
MatchNoScore(c) == [hasMetadata |-> TRUE, metadata |-> c, hasScore |-> FALSE, score |-> 0]

\* kind: "throw" the query rejected; "undefined" the reply has no `matches`;
\* "matches" it has the list `matches`.
QueryThrows == [kind |-> "throw", matches |-> <<>>]
QueryUndefined == [kind |-> "undefined", matches |-> <<>>]
QueryMatches(ms) == [kind |-> "matches", matches |-> ms]

\* the series a sermon of the corpus belongs to, when the corpus has g series;
\* every fifth sermon belongs to none
SeriesOf(s, g) ==
    IF g = 0 \/ s % 5 = 0 THEN "" ELSE SeriesName[((s - 1) % g) + 1]

\* descending score curves over positions 1..n (thousandths)
Score(shape, i) ==
    CASE shape = "flat"   -> 900
      [] shape = "cliff"  -> IF i <= 40 THEN 910 ELSE 500
      [] shape = "smooth" -> 950 - i
      [] shape = "early"  -> IF i <= 5 THEN 990 ELSE IF i <= 50 THEN 590 ELSE 560

\* n matches over k sermons in turn, the corpus having g series
RoundRobin(n, k, g, shape) ==
    [i \in 1..n |->
        LET s == ((i - 1) % k) + 1
        IN  Match(Chunk(s, SeriesOf(s, g), (i - 1) \div k), Score(shape, i))]

\* the spec's five-score scenario, with one match lacking metadata and one
\* lacking a score in between
FewMatches ==
    << Match(Chunk(1, SeriesName[1], 0), 910),
       MatchNoMetadata(900),
       Match(Chunk(2, "", 0), 890),
       MatchNoScore(Chunk(1, SeriesName[1], 1)),
       Match(Chunk(1, SeriesName[1], 2), 870),
       Match(Chunk(2, SeriesName[2], 1), 500),
       Match(Chunk(1, SeriesName[1], 3), 480) >>

\* five passages of two sources of the first series, no two scores 0.03 apart
FivePassages ==
    [i \in 1..5 |-> Match(Chunk(((i - 1) % 2) + 1, SeriesName[1], i), 915 - 5 * i)]

\* two sources whose series come up in the reverse order
SecondSeriesFirst ==
    << Match(Chunk(2, SeriesName[2], 0), 910), Match(Chunk(1, SeriesName[1], 0), 900) >>

\* n matches of n sources, in smooth decay: the first b sources belong to the
\* first series (every fifth to none), the sources after them to the second
DistinctSources(n, b) ==
    [i \in 1..n |->
        Match(Chunk(i, IF i > b THEN SeriesName[2] ELSE SeriesOf(i, 1), 0),
              Score("smooth", i))]

\* n matches, the first quarter all of source 1, the others of the sources 2..k
\* in turn, the corpus having g series
FrontLoaded(n, k, g, shape) ==
    [i \in 1..n |->
        LET s == IF i <= n \div 4 THEN 1 ELSE ((i - 1) % (k - 1)) + 2
        IN  Match(Chunk(s, SeriesOf(s, g), i), Score(shape, i))]

SeriesLimits == { BUDGET_PROFILES[sc].maxSermonsForSeries : sc \in Scopes }

PrimaryReplies(topK) ==
    { QueryMatches(DistinctSources(topK, b)) : b \in { l \in SeriesLimits : l < topK } }
    \cup
    { QueryThrows, QueryUndefined, QueryMatches(<<>>),
      QueryMatches(SecondSeriesFirst),
      QueryMatches(FivePassages),
      QueryMatches(FrontLoaded(topK, ManySources, 2, "flat")),
      QueryMatches(<<MatchNoMetadata(900), MatchNoScore(Chunk(1, SeriesName[1], 0))>>),
      QueryMatches(FewMatches),
      QueryMatches(RoundRobin(topK, 1, 1, "flat")),
      QueryMatches(RoundRobin(topK, FewSources, 2, "early")),
      QueryMatches(RoundRobin(topK, ManySources, 2, "cliff")),
      QueryMatches(RoundRobin(topK, ManySources, 2, "flat")),
      QueryMatches(RoundRobin(topK, ManySources, 0, "smooth")) }

SeriesNumber(g) == CHOOSE n \in 1..Len(SeriesName) : SeriesName[n] = g

\* what a query filtered to series g may return: a match without metadata, two
\* chunks of sermon 1 (which the primary query matched, its chunk 0 among its
\* matches), four chunks of each of m
\* sermons of the series, and two chunks of sermon 999, whose chunks the index
\* stores under every series
SeriesMatches(g, m) ==
    LET n == SeriesNumber(g)
    IN  << MatchNoMetadata(800),
           Match(Chunk(1, g, 0), 799), Match(Chunk(1, g, 91), 798) >>
        \o [i \in 1..(4 * m) |->
              Match(Chunk(100 * n + ((i - 1) % m) + 1, g, (i - 1) \div m), 790 - i)]
        \o << Match(Chunk(999, g, 10 * n + 1), 700), Match(Chunk(999, g, 10 * n + 2), 699) >>

\* a reply to the query filtered to series g in which every passage with
\* metadata belongs to sermon 1
MatchedOnly(g) ==
    << MatchNoMetadata(800), Match(Chunk(1, g, 0), 799), Match(Chunk(1, g, 91), 798) >>

SeriesReplies(g) ==
    { QueryThrows, QueryUndefined, QueryMatches(MatchedOnly(g)),
      QueryMatches(SeriesMatches(g, 1)), QueryMatches(SeriesMatches(g, FreshSermons)) }

\* embed([text], "query")[0]
Embedding(text) == <<"embedding", text>>
NoEmbedding == <<"embedding", <<>>>>

NoIndexQuery == [vector |-> NoEmbedding, topK |-> 0, filter |-> ""]

----------------------------------------------------------------------------
(* Adaptive cutoff *)

Max(a, b) == IF a >= b THEN a ELSE b
Min(a, b) == IF a <= b THEN a ELSE b

\* Math.max(8, Math.ceil(maxContextChunks * 0.3)); the product is exact in
\* double arithmetic for the profile values (24, 30, 36)
minKeepOfEight(maxContextChunks) == 8

minKeepOf(maxContextChunks) == Max(8, (maxContextChunks * 3 + 9) \div 10)

\* the body of findAdaptiveCutoff's for loop at JS index i, on the loop's state
\* st = <<largestGap, cutIndex>>; JS scores[i] is scores[i + 1]
cutoffStepLast(scores, i, st) ==
    LET gap == scores[i] - scores[i + 1]
    IN  IF gap >= st[1] /\ gap >= GAP_THRESHOLD THEN <<gap, i>> ELSE st

cutoffStepAboveThreshold(scores, i, st) ==
    LET gap == scores[i] - scores[i + 1]
    IN  IF gap > st[1] /\ gap > GAP_THRESHOLD THEN <<gap, i>> ELSE st

cutoffStepNoThreshold(scores, i, st) ==
    LET gap == scores[i] - scores[i + 1]
    IN  IF gap > st[1] THEN <<gap, i>> ELSE st

cutoffStep(scores, i, st) ==
    LET gap == scores[i] - scores[i + 1]
    IN  IF gap > st[1] /\ gap >= GAP_THRESHOLD THEN <<gap, i>> ELSE st

\* the iterations lo..hi of the for loop, in order. The range is run by halves,
\* the state after the first half being bound (as the member of a singleton)
\* before the second half runs: a fold of the loop body over lo..hi whose
\* evaluation stays shallow. The other loops below are written the same way.
RECURSIVE cutoffLoop(_, _, _, _)
cutoffLoop(scores, lo, hi, st) ==
    IF lo > hi THEN st
    ELSE IF lo = hi THEN cutoffStep(scores, lo, st)
    ELSE LET mid == (lo + hi) \div 2
         IN  CHOOSE r \in { cutoffLoop(scores, mid + 1, hi, left) :
                              left \in {cutoffLoop(scores, lo, mid, st)} } : TRUE

\* a list no longer than minKeep dropped instead of kept
findAdaptiveCutoffDropsShort(scores, maxContextChunks) ==
    LET minKeep == minKeepOf(maxContextChunks)
    IN  IF Len(scores) <= minKeep THEN 0
        ELSE cutoffLoop(scores, minKeep, Len(scores) - 1, <<0, Len(scores)>>)[2]

\* the scan started at the first gap instead of at minKeep
findAdaptiveCutoffScanAll(scores, maxContextChunks) ==
    IF Len(scores) <= 1 THEN Len(scores)
    ELSE cutoffLoop(scores, 1, Len(scores) - 1, <<0, Len(scores)>>)[2]

findAdaptiveCutoff(scores, maxContextChunks) ==
    LET minKeep == minKeepOf(maxContextChunks)
    IN  IF Len(scores) <= minKeep THEN Len(scores)
        ELSE cutoffLoop(scores, minKeep, Len(scores) - 1, <<0, Len(scores)>>)[2]

----------------------------------------------------------------------------
(* JavaScript Maps and Sets, in insertion order *)

mapHas(m, k) == \E i \in 1..Len(m) : m[i][1] = k
mapIndex(m, k) == CHOOSE i \in 1..Len(m) : m[i][1] = k
\* m.get(k) ?? dflt
mapGet(m, k, dflt) == IF mapHas(m, k) THEN m[mapIndex(m, k)][2] ELSE dflt
\* m.set(k, v): an existing key keeps its place
mapSet(m, k, v) ==
    IF mapHas(m, k) THEN [m EXCEPT ![mapIndex(m, k)] = <<k, v>>] ELSE Append(m, <<k, v>>)

inSeq(q, x) == \E i \in 1..Len(q) : q[i] = x
\* set.add(x)
setAdd(q, x) == IF inSeq(q, x) THEN q ELSE Append(q, x)

RECURSIVE flat(_)
flat(lists) == IF lists = <<>> THEN <<>> ELSE Head(lists) \o flat(Tail(lists))

\* [...m.values()].flat()
mapValuesFlat(m) == flat([i \in 1..Len(m) |-> m[i][2]])

----------------------------------------------------------------------------
(* The synchronous computations of POST *)

\* step 4: the matches with metadata and a numeric score, as ScoredChunks
scoredChunksOf(reply) ==
    LET usable == SelectSeq(reply.matches, LAMBDA m : m.hasMetadata /\ m.hasScore)
    IN  [i \in 1..Len(usable) |-> [metadata |-> usable[i].metadata, score |-> usable[i].score]]

scoresOf(scored) == [i \in 1..Len(scored) |-> scored[i].score]

\* step 6: the body of the for loop over qualityChunks at element i, on the
\* loop's state st = [seenSermons, topSeriesIDs, broken]
seriesStepNoLimit(quality, i, st, maxSermons) ==
    LET chunk == quality[i].metadata
    IN  IF chunk.sermonID \in st.seenSermons THEN st
        ELSE [seenSermons |-> st.seenSermons \cup {chunk.sermonID},
              topSeriesIDs |-> IF chunk.series # ""
                               THEN setAdd(st.topSeriesIDs, chunk.series)
                               ELSE st.topSeriesIDs,
              broken |-> FALSE]

seriesStep(quality, i, st, maxSermons) ==
    LET chunk == quality[i].metadata
    IN  IF st.broken \/ chunk.sermonID \in st.seenSermons THEN st
        ELSE LET seen2 == st.seenSermons \cup {chunk.sermonID}
             IN  [seenSermons |-> seen2,
                  topSeriesIDs |-> IF chunk.series # ""
                                   THEN setAdd(st.topSeriesIDs, chunk.series)
                                   ELSE st.topSeriesIDs,
                  broken |-> Cardinality(seen2) >= maxSermons]

RECURSIVE seriesLoop(_, _, _, _, _)
seriesLoop(quality, lo, hi, st, maxSermons) ==
    IF lo > hi THEN st
    ELSE IF lo = hi THEN seriesStep(quality, lo, st, maxSermons)
    ELSE LET mid == (lo + hi) \div 2
         IN  CHOOSE r \in { seriesLoop(quality, mid + 1, hi, left, maxSermons) :
                              left \in {seriesLoop(quality, lo, mid, st, maxSermons)} } : TRUE

collectSeries(quality, maxSermons) ==
    seriesLoop(quality, 1, Len(quality),
               [seenSermons |-> {}, topSeriesIDs |-> <<>>, broken |-> FALSE],
               maxSermons).topSeriesIDs

allMatchedSermonIDs == { qualityChunks[i].metadata.sermonID : i \in 1..Len(qualityChunks) }

\* the body of the for loop over one series query's matches, for match m
siblingStepKeepsMatched(m, matched, siblings) ==
    LET chunk == m.metadata
        existing == mapGet(siblings, chunk.sermonID, <<>>)
    IN  IF ~m.hasMetadata \/ Len(existing) >= MAX_SIBLING_CHUNKS_PER_SERMON
        THEN siblings
        ELSE mapSet(siblings, chunk.sermonID, Append(existing, chunk))

siblingStepNoCap(m, matched, siblings) ==
    LET chunk == m.metadata
        existing == mapGet(siblings, chunk.sermonID, <<>>)
    IN  IF ~m.hasMetadata \/ chunk.sermonID \in matched
        THEN siblings
        ELSE mapSet(siblings, chunk.sermonID, Append(existing, chunk))

siblingStep(m, matched, siblings) ==
    LET chunk == m.metadata
        existing == mapGet(siblings, chunk.sermonID, <<>>)
    IN  IF ~m.hasMetadata \/ chunk.sermonID \in matched
           \/ Len(existing) >= MAX_SIBLING_CHUNKS_PER_SERMON
        THEN siblings
        ELSE mapSet(siblings, chunk.sermonID, Append(existing, chunk))

RECURSIVE siblingLoop(_, _, _, _, _)
siblingLoop(matches, lo, hi, matched, siblings) ==
    IF lo > hi THEN siblings
    ELSE IF lo = hi THEN siblingStep(matches[lo], matched, siblings)
    ELSE LET mid == (lo + hi) \div 2
         IN  CHOOSE r \in { siblingLoop(matches, mid + 1, hi, matched, left) :
                              left \in {siblingLoop(matches, lo, mid, matched, siblings)} } : TRUE

collectSiblings(matches, matched, siblings) ==
    siblingLoop(matches, 1, Len(matches), matched, siblings)

\* step 7: the body of the for loop over chunks, for chunk c
sourceStepNoDedup(c, sourceMap) ==
    Append(sourceMap, <<c.sermonID,
                        [title |-> c.title, preacher |-> c.preacher,
                         preachDate |-> c.preachDate, bibleText |-> c.bibleText]>>)

sourceStepLastWins(c, sourceMap) ==
    mapSet(sourceMap, c.sermonID,
           [title |-> c.title, preacher |-> c.preacher,
            preachDate |-> c.preachDate, bibleText |-> c.bibleText])

sourceStep(c, sourceMap) ==
    IF mapHas(sourceMap, c.sermonID) THEN sourceMap
    ELSE mapSet(sourceMap, c.sermonID,
                [title |-> c.title, preacher |-> c.preacher,
                 preachDate |-> c.preachDate, bibleText |-> c.bibleText])

RECURSIVE sourceLoop(_, _, _, _)
sourceLoop(cs, lo, hi, sourceMap) ==
    IF lo > hi THEN sourceMap
    ELSE IF lo = hi THEN sourceStep(cs[lo], sourceMap)
    ELSE LET mid == (lo + hi) \div 2
         IN  CHOOSE r \in { sourceLoop(cs, mid + 1, hi, left) :
                              left \in {sourceLoop(cs, lo, mid, sourceMap)} } : TRUE

\* Array.from(sourceMap.entries()).map(...)
sourcesOf(cs) ==
    CHOOSE sources \in
        { [i \in 1..Len(sourceMap) |->
              [sermonID |-> sourceMap[i][1], title |-> sourceMap[i][2].title,
               preacher |-> sourceMap[i][2].preacher,
               preachDate |-> sourceMap[i][2].preachDate,
               bibleText |-> sourceMap[i][2].bibleText]] :
          sourceMap \in {sourceLoop(cs, 1, Len(cs), <<>>)} } : TRUE

\* step 8: the context, one entry per chunk: the parts of its header, then its text
contextOf(cs) ==
    [i \in 1..Len(cs) |->
        <<"Source", i, cs[i].title, cs[i].preacher>>
        \o (IF cs[i].bibleText # "" THEN <<cs[i].bibleText>> ELSE <<>>)
        \o (IF cs[i].preachDate # "" THEN <<cs[i].preachDate>> ELSE <<>>)
        \o <<cs[i].text>>]

----------------------------------------------------------------------------
(* Responses *)

NoResponse == [kind |-> "none", status |-> 0, error |-> "", stage |-> "",
               context |-> <<>>, sources |-> <<>>, scope |-> ""]
\* new Response(JSON.stringify({ error }), { status })
ErrorResponse(st, msg) == [NoResponse EXCEPT !.kind = "http", !.status = st, !.error = msg]
\* new Response(JSON.stringify(payload), { status: 200 })
PayloadResponse(ctx, srcs, sc) ==
    [NoResponse EXCEPT !.kind = "http", !.status = 200, !.context = ctx,
                       !.sources = srcs, !.scope = sc]
\* POST rejected: the exception of the awaited call of that stage left the handler
Thrown(stage) == [NoResponse EXCEPT !.kind = "thrown", !.stage = stage]

NoCalls == [classifier |-> 0, expander |-> 0, embed |-> 0, primary |-> 0, sibling |-> 0]
IdleCall == [state |-> "idle", reply |-> NoReply]

----------------------------------------------------------------------------
(* State *)

auxVars == <<clsCall, expCall, scope, expandedQuery>>
retrievalVars == <<budget, embedInput, queryEmbedding, indexQuery, allScoredChunks,
                   adaptiveCutoff, qualityChunks, topSeriesIDs, seriesIdx,
                   siblingsBySermon>>
fillVars == <<seriesSiblingChunks, mainBudget, sermonChunkCounts, chunks, loopIdx,
             mainTaken>>

\* the variables of one request before POST runs, POST being at position p
PipelineAt(p) ==
    /\ pc = p
    /\ query = JsUndefined
    /\ clsCall = IdleCall
    /\ expCall = IdleCall
    /\ scope = ""
    /\ expandedQuery = <<>>
    /\ budget = NoBudget
    /\ embedInput = <<>>
    /\ queryEmbedding = NoEmbedding
    /\ indexQuery = NoIndexQuery
    /\ allScoredChunks = <<>>
    /\ adaptiveCutoff = 0
    /\ qualityChunks = <<>>
    /\ topSeriesIDs = <<>>
    /\ seriesIdx = 1
    /\ siblingsBySermon = <<>>
    /\ seriesSiblingChunks = <<>>
    /\ mainBudget = 0
    /\ sermonChunkCounts = <<>>
    /\ chunks = <<>>
    /\ loopIdx = 1
    /\ mainTaken = 0
    /\ response = NoResponse
    /\ failure = ""
    /\ calls = NoCalls
    /\ cancelled = FALSE

CutoffIdle == cutScores = <<>> /\ cutMax = 0 /\ cutResult = -1

\* one request on the server: the module-level state as the module creates it
ServerIdle == profiles = BUDGET_PROFILES /\ scripts = <<>> /\ parked = <<>> /\ current = 1

\* no login request and no search client
LimiterIdle == attempts = <<>> /\ now = 0 /\ auth = <<>> /\ uploadPassword = ""
ClientIdle ==
    /\ abortRef = 0
    /\ contextCacheRef = <<>>
    /\ aiCache = <<>>
    /\ ui = <<>>
    /\ submits = <<>>
    /\ staleWrites = {}

Init == PipelineAt("body") /\ CutoffIdle /\ ServerIdle /\ LimiterIdle /\ ClientIdle

----------------------------------------------------------------------------
(* POST, one action per run of synchronous code between two awaits; the loops
   that fill `chunks` advance one iteration per step *)

\* `await request.json()` settles; the 400 guard
Receive ==
    /\ pc = "body"
    /\ \/ /\ response' = Thrown("body")
          /\ failure' = "body"
          /\ pc' = "done"
          /\ UNCHANGED query
       \/ \E v \in QueryValues :
            /\ query' = v
            /\ UNCHANGED failure
            /\ IF queryRejected(v)
               THEN response' = ErrorResponse(400, "Query is required") /\ pc' = "done"
               ELSE response' = response /\ pc' = "classify"
    /\ UNCHANGED <<auxVars, retrievalVars, fillVars, calls, cancelled, outsideVars>>

\* Promise.all([classifyQuery(query.trim()), ...]): classifyQuery runs to its await
StartClassifier ==
    /\ pc = "classify"
    /\ clsCall' = [state |-> "pending", reply |-> NoReply]
    /\ calls' = [calls EXCEPT !.classifier = @ + 1]
    /\ pc' = "expand"
    /\ UNCHANGED <<query, expCall, scope, expandedQuery, retrievalVars, fillVars,
                   response, failure, cancelled, outsideVars>>

\* Promise.all([..., expandQuery(query.trim())]): expandQuery runs to its await,
\* then POST awaits both
StartExpander ==
    /\ pc = "expand"
    /\ expCall' = [state |-> "pending", reply |-> NoReply]
    /\ calls' = [calls EXCEPT !.expander = @ + 1]
    /\ pc' = "aux"
    /\ UNCHANGED <<query, clsCall, scope, expandedQuery, retrievalVars, fillVars,
                   response, failure, cancelled, outsideVars>>

\* the classifier's completion settles: the rest of classifyQuery, catch included
ClassifierReturns ==
    /\ pc = "aux"
    /\ clsCall.state = "pending"
    /\ \E reply \in ClassifierReplies :
         /\ clsCall' = [state |-> "done", reply |-> reply]
         /\ scope' = classifyQuery(reply)
    /\ UNCHANGED <<pc, query, expCall, expandedQuery, retrievalVars, fillVars,
                   response, failure, calls, cancelled, outsideVars>>

\* the expander's completion settles, a failed one also resetting the scope
ExpanderReturnsResetsScope ==
    /\ pc = "aux"
    /\ expCall.state = "pending"
    /\ \E reply \in ExpanderReplies :
         /\ expCall' = [state |-> "done", reply |-> reply]
         /\ expandedQuery' = expandQuery(trim(query.chars), reply)
         /\ scope' = IF reply.kind = "throw" THEN "medium" ELSE scope
    /\ UNCHANGED <<pc, query, clsCall, retrievalVars, fillVars,
                   response, failure, calls, cancelled, outsideVars>>

\* the expander's completion settles: the rest of expandQuery, catch included
ExpanderReturns ==
    /\ pc = "aux"
    /\ expCall.state = "pending"
    /\ \E reply \in ExpanderReplies :
         /\ expCall' = [state |-> "done", reply |-> reply]
         /\ expandedQuery' = expandQuery(trim(query.chars), reply)
    /\ UNCHANGED <<pc, query, clsCall, scope, retrievalVars, fillVars,
                   response, failure, calls, cancelled, outsideVars>>

\* Promise.all resolves once one call is done (a race instead of all)
AfterAuxRace ==
    /\ pc = "aux"
    /\ clsCall.state = "done" \/ expCall.state = "done"
    /\ budget' = IF scope \in Scopes THEN profiles[scope] ELSE profiles["medium"]
    /\ embedInput' = expandedQuery
    /\ calls' = [calls EXCEPT !.embed = @ + 1]
    /\ pc' = "embed"
    /\ UNCHANGED <<query, auxVars, queryEmbedding, indexQuery, allScoredChunks,
                   adaptiveCutoff, qualityChunks, topSeriesIDs, seriesIdx,
                   siblingsBySermon, fillVars, response, failure, cancelled, outsideVars>>

\* Promise.all resolves; the profile read is narrowed in the table for the
\* requests to come
AfterAuxNarrowsProfile ==
    /\ pc = "aux"
    /\ clsCall.state = "done" /\ expCall.state = "done"
    /\ budget' = profiles[scope]
    /\ profiles' = [profiles EXCEPT ![scope].maxChunksPerSermon = 1]
    /\ embedInput' = expandedQuery
    /\ calls' = [calls EXCEPT !.embed = @ + 1]
    /\ pc' = "embed"
    /\ UNCHANGED <<query, auxVars, queryEmbedding, indexQuery, allScoredChunks,
                   adaptiveCutoff, qualityChunks, topSeriesIDs, seriesIdx,
                   siblingsBySermon, fillVars, response, failure, cancelled,
                   cutoffVars, scripts, parked, current, limiterVars, clientVars>>

\* Promise.all resolves: budget = BUDGET_PROFILES[scope]; embed([expandedQuery]) starts
AfterAux ==
    /\ pc = "aux"
    /\ clsCall.state = "done" /\ expCall.state = "done"
    /\ budget' = profiles[scope]
    /\ embedInput' = expandedQuery
    /\ calls' = [calls EXCEPT !.embed = @ + 1]
    /\ pc' = "embed"
    /\ UNCHANGED <<query, auxVars, queryEmbedding, indexQuery, allScoredChunks,
                   adaptiveCutoff, qualityChunks, topSeriesIDs, seriesIdx,
                   siblingsBySermon, fillVars, response, failure, cancelled, outsideVars>>

\* embed() settles; its rejection is caught and the primary query starts anyway
EmbedReturnsKeepsGoing ==
    /\ pc = "embed"
    /\ clsCall' = [clsCall EXCEPT !.reply = NoReply]
    /\ expCall' = [expCall EXCEPT !.reply = NoReply]
    /\ \/ /\ failure' = "embed"
          /\ queryEmbedding' = NoEmbedding
       \/ /\ queryEmbedding' = Embedding(embedInput)
          /\ UNCHANGED failure
    /\ indexQuery' = [vector |-> queryEmbedding', topK |-> budget.topK, filter |-> ""]
    /\ calls' = [calls EXCEPT !.primary = @ + 1]
    /\ pc' = "primary"
    /\ UNCHANGED <<query, scope, expandedQuery, budget, embedInput, allScoredChunks,
                   adaptiveCutoff, qualityChunks, topSeriesIDs, seriesIdx,
                   siblingsBySermon, fillVars, response, cancelled, outsideVars>>

\* embed() settles; a rejected call is made again, twice at most
EmbedReturnsRetries ==
    /\ pc = "embed"
    /\ clsCall' = [clsCall EXCEPT !.reply = NoReply]
    /\ expCall' = [expCall EXCEPT !.reply = NoReply]
    /\ \/ /\ calls.embed < 3
          /\ calls' = [calls EXCEPT !.embed = @ + 1]
          /\ UNCHANGED <<pc, response, failure, queryEmbedding, indexQuery>>
       \/ /\ calls.embed >= 3
          /\ response' = Thrown("embed")
          /\ failure' = "embed"
          /\ pc' = "done"
          /\ UNCHANGED <<queryEmbedding, indexQuery, calls>>
       \/ /\ queryEmbedding' = Embedding(embedInput)
          /\ indexQuery' = [vector |-> Embedding(embedInput), topK |-> budget.topK,
                            filter |-> ""]
          /\ calls' = [calls EXCEPT !.primary = @ + 1]
          /\ pc' = "primary"
          /\ UNCHANGED <<response, failure>>
    /\ UNCHANGED <<query, scope, expandedQuery, budget, embedInput, allScoredChunks,
                   adaptiveCutoff, qualityChunks, topSeriesIDs, seriesIdx,
                   siblingsBySermon, fillVars, cancelled, outsideVars>>

\* embed() settles (its rejection leaves POST); the primary query starts. The
\* auxiliary calls' responses are out of reach from here on and are dropped.
EmbedReturns ==
    /\ pc = "embed"
    /\ clsCall' = [clsCall EXCEPT !.reply = NoReply]
    /\ expCall' = [expCall EXCEPT !.reply = NoReply]
    /\ \/ /\ response' = Thrown("embed")
          /\ failure' = "embed"
          /\ pc' = "done"
          /\ UNCHANGED <<queryEmbedding, indexQuery, calls>>
       \/ /\ queryEmbedding' = Embedding(embedInput)
          /\ indexQuery' = [vector |-> Embedding(embedInput), topK |-> budget.topK,
                            filter |-> ""]
          /\ calls' = [calls EXCEPT !.primary = @ + 1]
          /\ pc' = "primary"
          /\ UNCHANGED <<response, failure>>
    /\ UNCHANGED <<query, scope, expandedQuery, budget, embedInput, allScoredChunks,
                   adaptiveCutoff, qualityChunks, topSeriesIDs, seriesIdx,
                   siblingsBySermon, fillVars, cancelled, outsideVars>>

\* the primary query settles (its rejection leaves POST): steps 4 to 6 up to the
\* for loop over topSeriesIDs
PrimaryReturns ==
    /\ pc = "primary"
    /\ \E reply \in PrimaryReplies(budget.topK) :
         IF reply.kind = "throw"
         THEN /\ response' = Thrown("primary")
              /\ failure' = "primary"
              /\ pc' = "done"
              /\ UNCHANGED <<allScoredChunks, adaptiveCutoff, qualityChunks, topSeriesIDs>>
         ELSE LET scored == scoredChunksOf(reply)
                  cut == findAdaptiveCutoff(scoresOf(scored), budget.maxContextChunks)
                  quality == SubSeq(scored, 1, cut)
              IN  /\ allScoredChunks' = scored
                  /\ adaptiveCutoff' = cut
                  /\ qualityChunks' = quality
                  /\ topSeriesIDs' = collectSeries(quality, budget.maxSermonsForSeries)
                  /\ pc' = "series"
                  /\ UNCHANGED <<response, failure>>
    /\ UNCHANGED <<query, auxVars, budget, embedInput, queryEmbedding, indexQuery,
                   seriesIdx, siblingsBySermon, fillVars, calls, cancelled, outsideVars>>

\* the for loop over topSeriesIDs has a next series: its query starts
StartSeriesQuery ==
    /\ pc = "series"
    /\ seriesIdx <= Len(topSeriesIDs)
    /\ indexQuery' = [vector |-> queryEmbedding, topK |-> budget.topK,
                      filter |-> topSeriesIDs[seriesIdx]]
    /\ calls' = [calls EXCEPT !.sibling = @ + 1]
    /\ pc' = "sibling"
    /\ UNCHANGED <<query, auxVars, budget, embedInput, queryEmbedding, allScoredChunks,
                   adaptiveCutoff, qualityChunks, topSeriesIDs, seriesIdx,
                   siblingsBySermon, fillVars, response, failure, cancelled, outsideVars>>

\* a series query settles (its rejection leaves POST): the loop over its matches
SeriesQueryReturns ==
    /\ pc = "sibling"
    /\ \E reply \in SeriesReplies(topSeriesIDs[seriesIdx]) :
         IF reply.kind = "throw"
         THEN /\ response' = Thrown("sibling")
              /\ failure' = "sibling"
              /\ pc' = "done"
              /\ UNCHANGED <<siblingsBySermon, seriesIdx>>
         ELSE /\ siblingsBySermon' =
                    collectSiblings(reply.matches, allMatchedSermonIDs, siblingsBySermon)
              /\ seriesIdx' = seriesIdx + 1
              /\ pc' = "series"
              /\ UNCHANGED <<response, failure>>
    /\ UNCHANGED <<query, auxVars, budget, embedInput, queryEmbedding, indexQuery,
                   allScoredChunks, adaptiveCutoff, qualityChunks, topSeriesIDs,
                   fillVars, calls, cancelled, outsideVars>>

\* the allocation with a slot held back for every sibling passage
StartAllocationReservesAll ==
    /\ pc = "series"
    /\ seriesIdx > Len(topSeriesIDs)
    /\ seriesSiblingChunks' = mapValuesFlat(siblingsBySermon)
    /\ mainBudget' = Max(0, budget.maxContextChunks - Len(mapValuesFlat(siblingsBySermon)))
    /\ sermonChunkCounts' = <<>>
    /\ chunks' = <<>>
    /\ loopIdx' = 1
    /\ mainTaken' = 0
    /\ pc' = "mainFill"
    /\ UNCHANGED <<query, auxVars, retrievalVars, response, failure, calls, cancelled,
                   outsideVars>>

\* the allocation with siblingReserve always held back
StartAllocationFixedReserve ==
    /\ pc = "series"
    /\ seriesIdx > Len(topSeriesIDs)
    /\ seriesSiblingChunks' = mapValuesFlat(siblingsBySermon)
    /\ mainBudget' = budget.maxContextChunks - budget.siblingReserve
    /\ sermonChunkCounts' = <<>>
    /\ chunks' = <<>>
    /\ loopIdx' = 1
    /\ mainTaken' = 0
    /\ pc' = "mainFill"
    /\ UNCHANGED <<query, auxVars, retrievalVars, response, failure, calls, cancelled,
                   outsideVars>>

\* the for loop over topSeriesIDs is over: siblingReserved and mainBudget
StartAllocation ==
    /\ pc = "series"
    /\ seriesIdx > Len(topSeriesIDs)
    /\ LET siblings == mapValuesFlat(siblingsBySermon)
           siblingReserved == Min(Len(siblings), budget.siblingReserve)
       IN  /\ seriesSiblingChunks' = siblings
           /\ mainBudget' = budget.maxContextChunks - siblingReserved
    /\ sermonChunkCounts' = <<>>
    /\ chunks' = <<>>
    /\ loopIdx' = 1
    /\ mainTaken' = 0
    /\ pc' = "mainFill"
    /\ UNCHANGED <<query, auxVars, retrievalVars, response, failure, calls, cancelled,
                   outsideVars>>

\* one iteration of `for (const { metadata: chunk } of qualityChunks)` without
\* the per-sermon cap
MainFillStepNoCap ==
    /\ pc = "mainFill"
    /\ IF loopIdx > Len(qualityChunks) \/ Len(chunks) >= mainBudget
       THEN /\ pc' = "siblingFill"
            /\ loopIdx' = 1
            /\ UNCHANGED <<sermonChunkCounts, chunks, mainTaken>>
       ELSE LET chunk == qualityChunks[loopIdx].metadata
                count == mapGet(sermonChunkCounts, chunk.sermonID, 0)
            IN  /\ sermonChunkCounts' = mapSet(sermonChunkCounts, chunk.sermonID, count + 1)
                /\ chunks' = Append(chunks, chunk)
                /\ mainTaken' = mainTaken + 1
                /\ loopIdx' = loopIdx + 1
                /\ UNCHANGED pc
    /\ UNCHANGED <<query, auxVars, retrievalVars, seriesSiblingChunks, mainBudget,
                   response, failure, calls, cancelled, outsideVars>>

\* one iteration of `for (const { metadata: chunk } of qualityChunks)` that
\* breaks at maxContextChunks instead of at mainBudget
MainFillStepIgnoresReserve ==
    /\ pc = "mainFill"
    /\ IF loopIdx > Len(qualityChunks) \/ Len(chunks) >= budget.maxContextChunks
       THEN /\ pc' = "siblingFill"
            /\ loopIdx' = 1
            /\ UNCHANGED <<sermonChunkCounts, chunks, mainTaken>>
       ELSE LET chunk == qualityChunks[loopIdx].metadata
                count == mapGet(sermonChunkCounts, chunk.sermonID, 0)
            IN  IF count >= budget.maxChunksPerSermon
                THEN /\ loopIdx' = loopIdx + 1
                     /\ UNCHANGED <<pc, sermonChunkCounts, chunks, mainTaken>>
                ELSE /\ sermonChunkCounts' =
                            mapSet(sermonChunkCounts, chunk.sermonID, count + 1)
                     /\ chunks' = Append(chunks, chunk)
                     /\ mainTaken' = mainTaken + 1
                     /\ loopIdx' = loopIdx + 1
                     /\ UNCHANGED pc
    /\ UNCHANGED <<query, auxVars, retrievalVars, seriesSiblingChunks, mainBudget,
                   response, failure, calls, cancelled, outsideVars>>

\* one iteration of `for (const { metadata: chunk } of qualityChunks)` that
\* leaves the loop at the first chunk of a sermon at its cap
MainFillStepStopsAtCap ==
    /\ pc = "mainFill"
    /\ IF \/ loopIdx > Len(qualityChunks)
          \/ Len(chunks) >= mainBudget
          \/ mapGet(sermonChunkCounts, qualityChunks[loopIdx].metadata.sermonID, 0)
                >= budget.maxChunksPerSermon
       THEN /\ pc' = "siblingFill"
            /\ loopIdx' = 1
            /\ UNCHANGED <<sermonChunkCounts, chunks, mainTaken>>
       ELSE LET chunk == qualityChunks[loopIdx].metadata
                count == mapGet(sermonChunkCounts, chunk.sermonID, 0)
            IN  /\ sermonChunkCounts' = mapSet(sermonChunkCounts, chunk.sermonID, count + 1)
                /\ chunks' = Append(chunks, chunk)
                /\ mainTaken' = mainTaken + 1
                /\ loopIdx' = loopIdx + 1
                /\ UNCHANGED pc
    /\ UNCHANGED <<query, auxVars, retrievalVars, seriesSiblingChunks, mainBudget,
                   response, failure, calls, cancelled, outsideVars>>

\* one iteration of `for (const { metadata: chunk } of qualityChunks)`: the loop
\* ends (no element left, or break), skips the chunk (continue) or pushes it
MainFillStep ==
    /\ pc = "mainFill"
    /\ IF loopIdx > Len(qualityChunks) \/ Len(chunks) >= mainBudget
       THEN /\ pc' = "siblingFill"
            /\ loopIdx' = 1
            /\ UNCHANGED <<sermonChunkCounts, chunks, mainTaken>>
       ELSE LET chunk == qualityChunks[loopIdx].metadata
                count == mapGet(sermonChunkCounts, chunk.sermonID, 0)
            IN  IF count >= budget.maxChunksPerSermon
                THEN /\ loopIdx' = loopIdx + 1
                     /\ UNCHANGED <<pc, sermonChunkCounts, chunks, mainTaken>>
                ELSE /\ sermonChunkCounts' =
                            mapSet(sermonChunkCounts, chunk.sermonID, count + 1)
                     /\ chunks' = Append(chunks, chunk)
                     /\ mainTaken' = mainTaken + 1
                     /\ loopIdx' = loopIdx + 1
                     /\ UNCHANGED pc
    /\ UNCHANGED <<query, auxVars, retrievalVars, seriesSiblingChunks, mainBudget,
                   response, failure, calls, cancelled, outsideVars>>

\* one iteration of `for (const chunk of seriesSiblingChunks)` without the break
SiblingFillStepNoBreak ==
    /\ pc = "siblingFill"
    /\ IF loopIdx > Len(seriesSiblingChunks)
       THEN /\ pc' = "respond"
            /\ UNCHANGED <<sermonChunkCounts, chunks, loopIdx>>
       ELSE LET chunk == seriesSiblingChunks[loopIdx]
                count == mapGet(sermonChunkCounts, chunk.sermonID, 0)
            IN  IF count >= budget.maxChunksPerSermon
                THEN /\ loopIdx' = loopIdx + 1
                     /\ UNCHANGED <<pc, sermonChunkCounts, chunks>>
                ELSE /\ sermonChunkCounts' =
                            mapSet(sermonChunkCounts, chunk.sermonID, count + 1)
                     /\ chunks' = Append(chunks, chunk)
                     /\ loopIdx' = loopIdx + 1
                     /\ UNCHANGED pc
    /\ UNCHANGED <<query, auxVars, retrievalVars, seriesSiblingChunks, mainBudget,
                   mainTaken, response, failure, calls, cancelled, outsideVars>>

\* one iteration of `for (const chunk of seriesSiblingChunks)`
SiblingFillStep ==
    /\ pc = "siblingFill"
    /\ IF loopIdx > Len(seriesSiblingChunks) \/ Len(chunks) >= budget.maxContextChunks
       THEN /\ pc' = "respond"
            /\ UNCHANGED <<sermonChunkCounts, chunks, loopIdx>>
       ELSE LET chunk == seriesSiblingChunks[loopIdx]
                count == mapGet(sermonChunkCounts, chunk.sermonID, 0)
            IN  IF count >= budget.maxChunksPerSermon
                THEN /\ loopIdx' = loopIdx + 1
                     /\ UNCHANGED <<pc, sermonChunkCounts, chunks>>
                ELSE /\ sermonChunkCounts' =
                            mapSet(sermonChunkCounts, chunk.sermonID, count + 1)
                     /\ chunks' = Append(chunks, chunk)
                     /\ loopIdx' = loopIdx + 1
                     /\ UNCHANGED pc
    /\ UNCHANGED <<query, auxVars, retrievalVars, seriesSiblingChunks, mainBudget,
                   mainTaken, response, failure, calls, cancelled, outsideVars>>

\* steps 7 and 8 and the response, without the empty check
RespondNoEmptyCheck ==
    /\ pc = "respond"
    /\ response' = PayloadResponse(contextOf(chunks), sourcesOf(chunks), scope)
    /\ pc' = "done"
    /\ UNCHANGED <<query, auxVars, retrievalVars, fillVars, failure, calls, cancelled,
                   outsideVars>>

\* the empty check, steps 7 and 8, and the response
Respond ==
    /\ pc = "respond"
    /\ response' = IF Len(chunks) = 0
                   THEN ErrorResponse(200, "No relevant sermon content found")
                   ELSE PayloadResponse(contextOf(chunks), sourcesOf(chunks), scope)
    /\ pc' = "done"
    /\ UNCHANGED <<query, auxVars, retrievalVars, fillVars, failure, calls, cancelled,
                   outsideVars>>

\* the caller aborts the request while POST is suspended at an await. POST never
\* reads request.signal and passes no signal to any client, so nothing else changes.
Cancel ==
    /\ pc \in {"body", "aux", "embed", "primary", "sibling"}
    /\ ~cancelled
    /\ cancelled' = TRUE
    /\ UNCHANGED <<pc, query, auxVars, retrievalVars, fillVars, response, failure,
                   calls, outsideVars>>

Next ==
    \/ Receive
    \/ StartClassifier
    \/ StartExpander
    \/ ClassifierReturns
    \/ ExpanderReturns
    \/ AfterAux
    \/ EmbedReturns
    \/ PrimaryReturns
    \/ StartSeriesQuery
    \/ SeriesQueryReturns
    \/ StartAllocation
    \/ MainFillStep
    \/ SiblingFillStep
    \/ Respond

\* one request, never cancelled
Spec == Init /\ [][Next]_vars

NextCancel == Next \/ Cancel

\* one request that its caller may cancel
SpecCancel == Init /\ [][NextCancel]_vars

\* one request, every external call of which settles and whose synchronous
\* code runs on
SpecLive == Init /\ [][Next]_vars /\ WF_vars(Next)

----------------------------------------------------------------------------
(* Several requests on one server. POST keeps everything in locals; what the
   requests share is the module-level state, of which the model has the table
   BUDGET_PROFILES. One request runs at a time and another one can run only
   while it is suspended at an await or has returned. Each request is given the
   replies of its script. *)

Requests == 1..3

\* the positions of POST at which it is suspended
AwaitPositions == {"body", "aux", "embed", "primary", "sibling"}

\* the locals of the running request
RequestLocals ==
    [pc |-> pc, query |-> query, clsCall |-> clsCall, expCall |-> expCall,
     scope |-> scope, expandedQuery |-> expandedQuery, budget |-> budget,
     embedInput |-> embedInput, queryEmbedding |-> queryEmbedding,
     indexQuery |-> indexQuery, allScoredChunks |-> allScoredChunks,
     adaptiveCutoff |-> adaptiveCutoff, qualityChunks |-> qualityChunks,
     topSeriesIDs |-> topSeriesIDs, seriesIdx |-> seriesIdx,
     siblingsBySermon |-> siblingsBySermon, seriesSiblingChunks |-> seriesSiblingChunks,
     mainBudget |-> mainBudget, sermonChunkCounts |-> sermonChunkCounts,
     chunks |-> chunks, loopIdx |-> loopIdx, mainTaken |-> mainTaken,
     response |-> response, failure |-> failure, calls |-> calls,
     cancelled |-> cancelled]

\* the locals of a request that has not started
FreshLocals ==
    [pc |-> "body", query |-> JsUndefined, clsCall |-> IdleCall, expCall |-> IdleCall,
     scope |-> "", expandedQuery |-> <<>>, budget |-> NoBudget, embedInput |-> <<>>,
     queryEmbedding |-> NoEmbedding, indexQuery |-> NoIndexQuery,
     allScoredChunks |-> <<>>, adaptiveCutoff |-> 0, qualityChunks |-> <<>>,
     topSeriesIDs |-> <<>>, seriesIdx |-> 1, siblingsBySermon |-> <<>>,
     seriesSiblingChunks |-> <<>>, mainBudget |-> 0, sermonChunkCounts |-> <<>>,
     chunks |-> <<>>, loopIdx |-> 1, mainTaken |-> 0, response |-> NoResponse,
     failure |-> "", calls |-> NoCalls, cancelled |-> FALSE]

\* placeholder for the locals of the running request
Running == [FreshLocals EXCEPT !.pc = "running"]

\* the replies one request is given: the body, the completions of the classifier
\* and the expander, the embedding, and the index's answers
BaseScript ==
    [bodyThrows |-> FALSE, query |-> JsString(<<" ">> \o StrGrace \o <<" ">>),
     classifier |-> ContentReply(StrNarrow),
     expander |-> ContentReply(<<" ">> \o StrExpanded \o <<"\n">>),
     embedThrows |-> FALSE, primary |-> QueryMatches(FivePassages), series |-> "fresh"]

Scripts ==
    { [BaseScript EXCEPT !.classifier = c, !.expander = e, !.primary = p, !.series = sr] :
        c \in {ThrowReply, ContentReply(StrNarrow)},
        e \in {ThrowReply, BaseScript.expander},
        p \in {QueryMatches(FivePassages), QueryMatches(SecondSeriesFirst)},
        sr \in {"matched", "fresh"} }
    \cup { [BaseScript EXCEPT !.primary = QueryMatches(<<>>)],
            [BaseScript EXCEPT !.bodyThrows = TRUE],
            [BaseScript EXCEPT !.query = JsNumber(7)],
            [BaseScript EXCEPT !.embedThrows = TRUE],
            [BaseScript EXCEPT !.primary = QueryThrows],
            [BaseScript EXCEPT !.series = "throw"] }

\* a request unlike the others: another scope and other passages
StrangerScript ==
    [BaseScript EXCEPT !.classifier = ContentReply(<<"B","R","O","A","D">>),
                       !.primary = QueryMatches(SecondSeriesFirst), !.series = "matched"]

\* the index's answer to the query filtered to series g under script sc
scriptedSeriesReply(sc, g) ==
    CASE sc.series = "throw" -> QueryThrows
      [] sc.series = "matched" -> QueryMatches(MatchedOnly(g))
      [] OTHER -> QueryMatches(SeriesMatches(g, 1))

\* the step taken is the one in which the running request is given the reply of
\* its script
FollowsScript(sc) ==
    /\ pc = "body" =>
          IF sc.bodyThrows THEN failure' = "body"
          ELSE failure' = "" /\ query' = sc.query
    /\ (pc = "aux" /\ clsCall' # clsCall) => clsCall'.reply = sc.classifier
    /\ (pc = "aux" /\ expCall' # expCall) => expCall'.reply = sc.expander
    /\ pc = "embed" => (failure' = "embed" <=> sc.embedThrows)
    /\ pc = "primary" =>
          IF sc.primary.kind = "throw" THEN failure' = "primary"
          ELSE failure' = "" /\ allScoredChunks' = scoredChunksOf(sc.primary)
    /\ pc = "sibling" =>
          LET reply == scriptedSeriesReply(sc, topSeriesIDs[seriesIdx])
          IN  IF reply.kind = "throw" THEN failure' = "sibling"
              ELSE /\ failure' = ""
                   /\ siblingsBySermon' =
                         collectSiblings(reply.matches, allMatchedSermonIDs, siblingsBySermon)

\* two requests given the same replies, and a third one
InitServer ==
    /\ PipelineAt("body") /\ CutoffIdle /\ LimiterIdle /\ ClientIdle
    /\ profiles = BUDGET_PROFILES
    /\ scripts \in { <<sc, sc, StrangerScript>> : sc \in Scripts }
    /\ parked = [r \in Requests |-> IF r = 1 THEN Running ELSE FreshLocals]
    /\ current = 1

\* the running request is suspended or has returned: another request runs on
Switch ==
    /\ pc \in AwaitPositions \cup {"done"}
    /\ \E to \in Requests \ {current} :
         /\ parked[to].pc # "done"
         /\ parked' = [parked EXCEPT ![current] = RequestLocals, ![to] = Running]
         /\ current' = to
         /\ pc' = parked[to].pc
         /\ query' = parked[to].query
         /\ clsCall' = parked[to].clsCall
         /\ expCall' = parked[to].expCall
         /\ scope' = parked[to].scope
         /\ expandedQuery' = parked[to].expandedQuery
         /\ budget' = parked[to].budget
         /\ embedInput' = parked[to].embedInput
         /\ queryEmbedding' = parked[to].queryEmbedding
         /\ indexQuery' = parked[to].indexQuery
         /\ allScoredChunks' = parked[to].allScoredChunks
         /\ adaptiveCutoff' = parked[to].adaptiveCutoff
         /\ qualityChunks' = parked[to].qualityChunks
         /\ topSeriesIDs' = parked[to].topSeriesIDs
         /\ seriesIdx' = parked[to].seriesIdx
         /\ siblingsBySermon' = parked[to].siblingsBySermon
         /\ seriesSiblingChunks' = parked[to].seriesSiblingChunks
         /\ mainBudget' = parked[to].mainBudget
         /\ sermonChunkCounts' = parked[to].sermonChunkCounts
         /\ chunks' = parked[to].chunks
         /\ loopIdx' = parked[to].loopIdx
         /\ mainTaken' = parked[to].mainTaken
         /\ response' = parked[to].response
         /\ failure' = parked[to].failure
         /\ calls' = parked[to].calls
         /\ cancelled' = parked[to].cancelled
    /\ UNCHANGED <<profiles, scripts, cutoffVars, limiterVars, clientVars>>

\* a step of the running request
RequestStep == Next /\ FollowsScript(scripts[current])

NextServer == Switch \/ RequestStep

\* three requests handled by one server process
SpecServer == InitServer /\ [][NextServer]_vars

----------------------------------------------------------------------------
(* findAdaptiveCutoff alone, on score lists built from their gaps *)

\* gap sizes around the threshold (thousandths)
GapChoices == {0, 29, 30, 31}

RECURSIVE sumUpTo(_, _, _)
\* the sum of w[k] for the k of lo..j in the domain of w (first key lo)
sumUpTo(w, lo, j) ==
    IF j < lo THEN 0
    ELSE (IF j \in DOMAIN w THEN w[j] ELSE 0) + sumUpTo(w, lo, j - 1)

\* the descending list of length len that starts at 0.99, drops by early before
\* JS index 3 and by w[k] before each JS index k of w's domain lo..hi
scoresFromGaps(len, early, w, lo) ==
    [i \in 1..len |->
        990 - (IF i - 1 >= 3 THEN early ELSE 0) - sumUpTo(w, lo, Min(i - 1, len - 1))]

\* lists longer than minKeep: every choice of gaps from the index below minKeep
\* to the end, with or without a large drop far below minKeep
LongScoreLists(maxContextChunks) ==
    LET minKeep == minKeepOf(maxContextChunks)
    IN  UNION { { scoresFromGaps(len, early, w, minKeep - 1) :
                    early \in {0, 400}, w \in [(minKeep - 1)..(len - 1) -> GapChoices] }
                : len \in (minKeep + 1)..(minKeep + TailLen) }

\* lists no longer than 0.3 * maxContextChunks (at least 8), with gaps at their
\* first indexes and at their last one
ShortScoreLists(maxContextChunks) ==
    LET longest == Max(8, (maxContextChunks * 3 + 9) \div 10)
    IN  UNION { { scoresFromGaps(len, 0, w, 1) :
                    w \in [({1, 2, len - 1} \cap 1..(len - 1)) -> {0, 30, 370}] }
                : len \in {0, 1, 5, 9, longest - 1, longest} }

\* lists of any length that decay by the same small step throughout
SmoothScoreLists(maxContextChunks) ==
    { [i \in 1..len |-> 990 - step * (i - 1)] :
        len \in {maxContextChunks \div 2, maxContextChunks, 150}, step \in {0, 1, 29} }

\* the spec's scenarios: forty scores of 0.91 then forty of 0.50; five scores
\* with a drop of 0.37
ScenarioScoreLists ==
    { [i \in 1..80 |-> IF i <= 40 THEN 910 ELSE 500],
      <<910, 890, 870, 500, 480>> }

CutoffInputs(maxContextChunks) ==
    LongScoreLists(maxContextChunks) \cup ShortScoreLists(maxContextChunks)
        \cup SmoothScoreLists(maxContextChunks) \cup ScenarioScoreLists

InitCutoff ==
    /\ PipelineAt("off")
    /\ cutMax \in { BUDGET_PROFILES[sc].maxContextChunks : sc \in Scopes }
    /\ cutScores \in CutoffInputs(cutMax)
    /\ cutResult = -1
    /\ ServerIdle /\ LimiterIdle /\ ClientIdle

\* the call findAdaptiveCutoff(scores, budget.maxContextChunks)
ApplyCutoff ==
    /\ cutResult = -1
    /\ cutMax > 0
    /\ cutResult' = findAdaptiveCutoff(cutScores, cutMax)
    /\ UNCHANGED <<pipelineVars, cutScores, cutMax, serverVars, limiterVars, clientVars>>

NextCutoff == ApplyCutoff

\* findAdaptiveCutoff applied to one score list
SpecCutoff == InitCutoff /\ [][NextCutoff]_vars

----------------------------------------------------------------------------
(* The upload login: rate-limit.ts and POST of /api/upload/auth *)

MAX_ATTEMPTS == 5
WINDOW_MS == 15 * 60 * 1000

\* login requests handled at once
MaxInFlight == 2
\* the clock moves in steps of half a window, up to three windows
TickMs == WINDOW_MS \div 2
LastTick == 3 * WINDOW_MS

StrUnknown == <<"u","n","k","n","o","w","n">>
StrAddress == <<"1","0",".","0",".","0",".","7">>
Absent == [present |-> FALSE, value |-> <<>>]
Present(v) == [present |-> TRUE, value |-> v]

\* the headers of a login request: x-forwarded-for as its parts between commas
AuthHeaders ==
    { [forwardedFor |-> Absent, realIp |-> Absent],
      [forwardedFor |-> Absent, realIp |-> Present(StrAddress)],
      [forwardedFor |-> Present(<< <<" ">> \o StrAddress, <<"1","0",".","9">> >>),
       realIp |-> Absent] }

\* x-forwarded-for?.split(",")[0]?.trim() ?? x-real-ip ?? "unknown"
clientIp(h) ==
    IF h.forwardedFor.present THEN trim(h.forwardedFor.value[1])
    ELSE IF h.realIp.present THEN h.realIp.value
    ELSE StrUnknown

NoEntry == [count |-> 0, resetTime |-> 0]

\* cleanup(): the entries whose window is over are deleted
cleanup(m, t) == SelectSeq(m, LAMBDA e : ~(t > e[2].resetTime))

\* isRateLimited(ip).blocked, on the map cleanup() left
blocked(m, ip) == mapHas(m, ip) /\ mapGet(m, ip, NoEntry).count >= MAX_ATTEMPTS

\* Math.ceil((entry.resetTime - Date.now()) / 1000)
retryAfterSeconds(m, ip, t) == (mapGet(m, ip, NoEntry).resetTime - t + 999) \div 1000

\* recordFailure(ip)
recordFailure(m, ip, t) ==
    LET entry == mapGet(m, ip, NoEntry)
    IN  IF ~mapHas(m, ip) \/ t > entry.resetTime
        THEN mapSet(m, ip, [count |-> 1, resetTime |-> t + WINDOW_MS])
        ELSE mapSet(m, ip, [entry EXCEPT !.count = @ + 1])

IdleAuth == [pc |-> "idle", ip |-> <<>>, status |-> 0, retryAfter |-> 0]

InitLimiter ==
    /\ PipelineAt("off") /\ CutoffIdle /\ ServerIdle /\ ClientIdle
    /\ attempts = <<>>
    /\ now = 0
    /\ auth = [r \in 1..MaxInFlight |-> IdleAuth]
    /\ uploadPassword \in {"", "secret"}

\* POST up to `await request.json()`: the address, isRateLimited, the 429 response
AuthArrives(r) ==
    /\ auth[r].pc = "idle"
    /\ \E h \in AuthHeaders :
         LET ip == clientIp(h)
             swept == cleanup(attempts, now)
         IN  /\ attempts' = swept
             /\ auth' = [auth EXCEPT ![r] =
                           IF blocked(swept, ip)
                           THEN [pc |-> "done", ip |-> ip, status |-> 429,
                                 retryAfter |-> retryAfterSeconds(swept, ip, now)]
                           ELSE [pc |-> "body", ip |-> ip, status |-> 0, retryAfter |-> 0]]
    /\ UNCHANGED <<now, uploadPassword, pipelineVars, cutoffVars, serverVars, clientVars>>

\* `await request.json()` settles: the rest of POST
AuthBodyRead(r) ==
    /\ auth[r].pc = "body"
    /\ \/ /\ auth' = [auth EXCEPT ![r].pc = "done", ![r].status = -1]
          /\ UNCHANGED attempts
       \/ \E password \in {"secret", "guess"} :
            IF uploadPassword = ""
            THEN /\ auth' = [auth EXCEPT ![r].pc = "done", ![r].status = 500]
                 /\ UNCHANGED attempts
            ELSE IF password # uploadPassword
            THEN /\ attempts' = recordFailure(attempts, auth[r].ip, now)
                 /\ auth' = [auth EXCEPT ![r].pc = "done", ![r].status = 401]
            ELSE /\ auth' = [auth EXCEPT ![r].pc = "done", ![r].status = 200]
                 /\ UNCHANGED attempts
    /\ UNCHANGED <<now, uploadPassword, pipelineVars, cutoffVars, serverVars, clientVars>>

\* the response has been sent
AuthReturns(r) ==
    /\ auth[r].pc = "done"
    /\ auth' = [auth EXCEPT ![r] = IdleAuth]
    /\ UNCHANGED <<attempts, now, uploadPassword, pipelineVars, cutoffVars, serverVars,
                   clientVars>>

\* time passes
Tick ==
    /\ now < LastTick
    /\ now' = now + TickMs
    /\ UNCHANGED <<attempts, auth, uploadPassword, pipelineVars, cutoffVars, serverVars,
                   clientVars>>

NextLimiter ==
    \/ \E r \in 1..MaxInFlight : AuthArrives(r)
    \/ \E r \in 1..MaxInFlight : AuthBodyRead(r)
    \/ \E r \in 1..MaxInFlight : AuthReturns(r)
    \/ Tick

\* the login requests of a few clients on one server
SpecLimiter == InitLimiter /\ [][NextLimiter]_vars

----------------------------------------------------------------------------
(* The search client: handleSubmit, fetchContext and streamAnswer of
   AiSearchResult.tsx. A run of synchronous code between two awaits is one
   action. abort() rejects the aborted invocation's pending promise; the
   reaction to it runs right after the submit that aborted it, before any other
   event is handled. *)

\* invocations of handleSubmit
MaxSubmits == 3
\* reads of the answer stream that deliver a chunk
MaxChunks == 2

\* what the user submits
SubmittedQueries == { <<" ">>, <<" ", "a">>, <<"b">> }

\* the pieces an answer stream is made of: text, a newline, a rule "---" and
\* the marker "--- SOURCES ---"
StreamPieces == {"t", "\n", "---", "---SOURCES---"}

RECURSIVE dropNewlinesAtEnd(_)
dropNewlinesAtEnd(t) ==
    IF t # <<>> /\ t[Len(t)] = "\n" THEN dropNewlinesAtEnd(SubSeq(t, 1, Len(t) - 1)) ELSE t

\* .replace(/\n*---\s*SOURCES?\s*---[\s\S]*$/, "")
stripSources(t) ==
    IF \E i \in 1..Len(t) : t[i] = "---SOURCES---"
    THEN LET first == CHOOSE i \in 1..Len(t) :
                        /\ t[i] = "---SOURCES---"
                        /\ \A j \in 1..(i - 1) : t[j] # "---SOURCES---"
         IN  dropNewlinesAtEnd(SubSeq(t, 1, first - 1))
    ELSE t

\* .replace(/\n*---\s*$/, "")
stripRule(t) ==
    LET body == trimEnd(t)
    IN  IF body # <<>> /\ body[Len(body)] = "---"
        THEN dropNewlinesAtEnd(SubSeq(body, 1, Len(body) - 1))
        ELSE t

\* `display`, and `finalResponse`
display(accumulated) == stripRule(stripSources(accumulated))
finalResponse(accumulated) == trim(display(accumulated))

NoContext == [query |-> <<>>, context |-> <<>>, sources |-> <<>>, scope |-> ""]
\* the ContextCache built from the payload of /api/ai-context for q
ContextFor(q) ==
    [query |-> q, context |-> <<"context", q>>, sources |-> <<"source", q>>,
     scope |-> "medium"]
\* the list in the X-Sources header of /api/ai-stream
HeaderSources == <<"source", "header">>

StrProvider == "anthropic"
\* cacheKey(query, provider)
cacheKey(q, provider) == <<q, provider>>

\* an invocation that has returned
NoSubmit == [pc |-> "done", q |-> <<>>, aborted |-> FALSE, status |-> 0,
             ctx |-> NoContext, accumulated |-> <<>>]

InitClient ==
    /\ PipelineAt("off") /\ CutoffIdle /\ ServerIdle /\ LimiterIdle
    /\ abortRef = 0
    /\ contextCacheRef = NoContext
    /\ aiCache = <<>>
    /\ ui = [response |-> <<>>, sources |-> <<>>, loading |-> FALSE, error |-> "",
             submitted |-> FALSE]
    /\ submits = <<>>
    /\ staleWrites = {}

\* the fields an invocation writes while its controller is not the current one
staleMarks(r, fields) == IF abortRef = r THEN {} ELSE fields

\* `finally { if (abortRef.current === controller) setLoading(false) }`
finallyUi(u, r) == [u EXCEPT !.loading = IF abortRef = r THEN FALSE ELSE @]
\* `catch (err) { ...; setError(message) }` for an error that is no AbortError,
\* then the finally block
failUi(u, r, message) == finallyUi([u EXCEPT !.error = message], r)

\* invocation r ends in the catch block with an error that is no AbortError
Fails(r, message) ==
    /\ ui' = failUi(ui, r, message)
    /\ staleWrites' = staleWrites \cup staleMarks(r, {"error"})
    /\ submits' = [submits EXCEPT ![r] = NoSubmit]

\* no aborted invocation has its rejection still to handle
Quiet == \A r \in 1..Len(submits) : ~(submits[r].aborted /\ submits[r].pc # "done")
\* invocation r is suspended at position p and may go on
Awaiting(r, p) == submits[r].pc = p /\ ~submits[r].aborted /\ Quiet

\* handleSubmit(q) up to its first pending await; a context cached for the query
\* lets fetchContext return at once, and streamAnswer runs to its fetch
Submit ==
    /\ Len(submits) < MaxSubmits
    /\ Quiet
    /\ \E q \in SubmittedQueries :
         IF trim(q) = <<>>
         THEN /\ submits' = Append(submits, NoSubmit)
              /\ UNCHANGED <<abortRef, ui>>
         ELSE LET id == Len(submits) + 1
                  hit == contextCacheRef # NoContext /\ contextCacheRef.query = trim(q)
                  aborting == [r \in 1..Len(submits) |->
                                 [submits[r] EXCEPT !.aborted = @ \/ r = abortRef]]
              IN  /\ abortRef' = id
                  /\ ui' = [response |-> <<>>,
                            sources |-> IF hit THEN contextCacheRef.sources ELSE <<>>,
                            loading |-> TRUE, error |-> "", submitted |-> TRUE]
                  /\ submits' = Append(aborting,
                        [pc |-> IF hit THEN "streamFetch" ELSE "ctxFetch",
                         q |-> trim(q), aborted |-> FALSE, status |-> 0,
                         ctx |-> IF hit THEN contextCacheRef ELSE NoContext,
                         accumulated |-> <<>>])
    /\ UNCHANGED <<contextCacheRef, aiCache, staleWrites, pipelineVars, cutoffVars,
                   serverVars, limiterVars>>

\* the pending promise of an aborted invocation rejects with an AbortError.
\* `res.json().catch(() => ({}))` of a response that is not ok swallows it and
\* the Error thrown next reaches setError; elsewhere the catch block returns.
AbortSettles(r) ==
    /\ submits[r].aborted
    /\ submits[r].pc # "done"
    /\ IF submits[r].pc = "ctxErrBody"
       THEN Fails(r, "Context request failed")
       ELSE IF submits[r].pc = "streamErrBody"
       THEN Fails(r, "Stream request failed")
       ELSE /\ ui' = finallyUi(ui, r)
            /\ submits' = [submits EXCEPT ![r] = NoSubmit]
            /\ UNCHANGED staleWrites
    /\ UNCHANGED <<abortRef, contextCacheRef, aiCache, pipelineVars, cutoffVars,
                   serverVars, limiterVars>>

\* fetch("/api/ai-context") settles
CtxFetchSettles(r) ==
    /\ Awaiting(r, "ctxFetch")
    /\ \/ Fails(r, "Failed to fetch")
       \/ \E status \in {200, 500} :
            /\ submits' = [submits EXCEPT ![r].status = status,
                                          ![r].pc = IF status = 200 THEN "ctxBody"
                                                    ELSE "ctxErrBody"]
            /\ UNCHANGED <<ui, staleWrites>>
    /\ UNCHANGED <<abortRef, contextCacheRef, aiCache, pipelineVars, cutoffVars,
                   serverVars, limiterVars>>

\* the body of a context response that is not ok has been read
CtxErrBodySettles(r) ==
    /\ Awaiting(r, "ctxErrBody")
    /\ \E data \in {"invalid", "empty", "error"} :
         Fails(r, IF data = "error" THEN "server error" ELSE "Context request failed")
    /\ UNCHANGED <<abortRef, contextCacheRef, aiCache, pipelineVars, cutoffVars,
                   serverVars, limiterVars>>

\* the body of an ok context response has been read: the rest of fetchContext,
\* then streamAnswer up to its fetch
CtxBodySettles(r) ==
    /\ Awaiting(r, "ctxBody")
    /\ \/ /\ Fails(r, "Unexpected token")
          /\ UNCHANGED contextCacheRef
       \/ /\ Fails(r, "No relevant sermon content found")
          /\ UNCHANGED contextCacheRef
       \/ LET result == ContextFor(submits[r].q)
          IN  /\ contextCacheRef' = result
              /\ ui' = [ui EXCEPT !.sources = result.sources]
              /\ staleWrites' = staleWrites \cup staleMarks(r, {"sources"})
              /\ submits' = [submits EXCEPT ![r].ctx = result, ![r].pc = "streamFetch"]
    /\ UNCHANGED <<abortRef, aiCache, pipelineVars, cutoffVars, serverVars, limiterVars>>

\* fetch("/api/ai-stream") settles: streamAnswer up to the first read
StreamFetchSettles(r) ==
    /\ Awaiting(r, "streamFetch")
    /\ \/ Fails(r, "Failed to fetch")
       \/ /\ submits' = [submits EXCEPT ![r].status = 500, ![r].pc = "streamErrBody"]
          /\ UNCHANGED <<ui, staleWrites>>
       \/ /\ submits' = [submits EXCEPT ![r].status = 200, ![r].pc = "streamJsonBody"]
          /\ UNCHANGED <<ui, staleWrites>>
       \/ \E header \in {"none", "invalid", "list"}, hasBody \in BOOLEAN :
            LET shown == IF header = "list" THEN [ui EXCEPT !.sources = HeaderSources]
                         ELSE ui
                marks == IF header = "list" THEN staleMarks(r, {"sources"}) ELSE {}
            IN  IF hasBody
                THEN /\ ui' = shown
                     /\ staleWrites' = staleWrites \cup marks
                     /\ submits' = [submits EXCEPT ![r].status = 200, ![r].pc = "reading"]
                ELSE /\ ui' = failUi(shown, r, "No response stream")
                     /\ staleWrites' = staleWrites \cup marks \cup staleMarks(r, {"error"})
                     /\ submits' = [submits EXCEPT ![r] = NoSubmit]
    /\ UNCHANGED <<abortRef, contextCacheRef, aiCache, pipelineVars, cutoffVars,
                   serverVars, limiterVars>>

\* the body of a stream response that is not ok has been read
StreamErrBodySettles(r) ==
    /\ Awaiting(r, "streamErrBody")
    /\ \E data \in {"invalid", "empty", "error"} :
         Fails(r, IF data = "error" THEN "server error" ELSE "Stream request failed")
    /\ UNCHANGED <<abortRef, contextCacheRef, aiCache, pipelineVars, cutoffVars,
                   serverVars, limiterVars>>

\* the JSON body of an ok stream response has been read
StreamJsonBodySettles(r) ==
    /\ Awaiting(r, "streamJsonBody")
    /\ \/ Fails(r, "Unexpected token")
       \/ Fails(r, "server error")
       \/ /\ ui' = finallyUi(ui, r)
          /\ submits' = [submits EXCEPT ![r] = NoSubmit]
          /\ UNCHANGED staleWrites
    /\ UNCHANGED <<abortRef, contextCacheRef, aiCache, pipelineVars, cutoffVars,
                   serverVars, limiterVars>>

\* reader.read() settles: a chunk, the end of the stream, or a failure
ReadSettles(r) ==
    /\ Awaiting(r, "reading")
    /\ \/ /\ Fails(r, "network error")
          /\ UNCHANGED aiCache
       \/ /\ Len(submits[r].accumulated) < MaxChunks
          /\ \E chunk \in StreamPieces :
               LET accumulated == Append(submits[r].accumulated, chunk)
               IN  /\ submits' = [submits EXCEPT ![r].accumulated = accumulated]
                   /\ ui' = [ui EXCEPT !.response = display(accumulated)]
          /\ staleWrites' = staleWrites \cup staleMarks(r, {"response"})
          /\ UNCHANGED aiCache
       \/ LET final == finalResponse(submits[r].accumulated)
          IN  IF final = <<>>
              THEN /\ Fails(r, "No response received from the model")
                   /\ UNCHANGED aiCache
              ELSE /\ ui' = finallyUi([ui EXCEPT !.response = final], r)
                   /\ aiCache' = mapSet(aiCache, cacheKey(submits[r].q, StrProvider),
                                        [response |-> final,
                                         sources |-> submits[r].ctx.sources])
                   /\ staleWrites' = staleWrites \cup staleMarks(r, {"response", "cache"})
                   /\ submits' = [submits EXCEPT ![r] = NoSubmit]
    /\ UNCHANGED <<abortRef, contextCacheRef, pipelineVars, cutoffVars, serverVars,
                   limiterVars>>

NextClient ==
    \/ Submit
    \/ \E r \in 1..Len(submits) : AbortSettles(r)
    \/ \E r \in 1..Len(submits) : CtxFetchSettles(r)
    \/ \E r \in 1..Len(submits) : CtxErrBodySettles(r)
    \/ \E r \in 1..Len(submits) : CtxBodySettles(r)
    \/ \E r \in 1..Len(submits) : StreamFetchSettles(r)
    \/ \E r \in 1..Len(submits) : StreamErrBodySettles(r)
    \/ \E r \in 1..Len(submits) : StreamJsonBodySettles(r)
    \/ \E r \in 1..Len(submits) : ReadSettles(r)

\* one mounted search component and the submits of its user
SpecClient == InitClient /\ [][NextClient]_vars

----------------------------------------------------------------------------
(* Properties of the budget allocator *)

MainPortion == SubSeq(chunks, 1, mainTaken)
SiblingPortion == SubSeq(chunks, mainTaken + 1, Len(chunks))
SermonIDsOf(cs) == { cs[i].sermonID : i \in 1..Len(cs) }
CountOf(cs, s) == Cardinality({ i \in 1..Len(cs) : cs[i].sermonID = s })
QualityMetadata == [i \in 1..Len(qualityChunks) |-> qualityChunks[i].metadata]

CeilingOfScope == [narrow |-> 80, medium |-> 100, broad |-> 120]
SourceCapOfScope == [narrow |-> 12, medium |-> 16, broad |-> 20]

\* C1: in every state of a request, so after every step of both fill loops, the
\* final passage list has at most maxContextChunks entries of the active profile,
\* which is 80, 100 or 120 for narrow, medium or broad; so has a returned context.
C1_ListWithinMaxContextChunks ==
    /\ budget # NoBudget => budget.maxContextChunks = CeilingOfScope[scope]
    /\ Len(chunks) <= budget.maxContextChunks
    /\ response.kind = "http" => Len(response.context) <= budget.maxContextChunks

\* the sibling loop stopped by the ceiling with sibling passages left over, after a
\* main loop stopped by mainBudget with quality passages left over
C1_Witness ==
    /\ pc = "siblingFill"
    /\ Len(chunks) = budget.maxContextChunks
    /\ loopIdx <= Len(seriesSiblingChunks)
    /\ mainTaken = mainBudget
    /\ Len(qualityChunks) > mainBudget

\* C2: no source has more than maxChunksPerSermon (12, 16, 20) entries among the
\* passages taken from the quality set, none more than 3 among those taken from
\* the siblings, and the shared counter equals each source's total, which is at
\* most maxChunksPerSermon.
C2_PerSourceCaps ==
    /\ budget # NoBudget => budget.maxChunksPerSermon = SourceCapOfScope[scope]
    /\ \A s \in SermonIDsOf(chunks) :
         /\ CountOf(MainPortion, s) <= budget.maxChunksPerSermon
         /\ CountOf(SiblingPortion, s) <= 3
         /\ mapGet(sermonChunkCounts, s, 0) = CountOf(chunks, s)
         /\ CountOf(chunks, s) <= budget.maxChunksPerSermon

\* a finished list in which one source was cut at the main cap and another at the
\* sibling cap
C2_Witness ==
    /\ pc = "done"
    /\ \E s \in SermonIDsOf(MainPortion) :
         /\ CountOf(MainPortion, s) = budget.maxChunksPerSermon
         /\ CountOf(QualityMetadata, s) > budget.maxChunksPerSermon
    /\ \E s \in SermonIDsOf(SiblingPortion) : CountOf(SiblingPortion, s) = 3

----------------------------------------------------------------------------
(* Properties of failure handling *)

NoContentResponse == ErrorResponse(200, "No relevant sermon content found")
IsPayload(r) == r.kind = "http" /\ r.status = 200 /\ r.error = ""
\* POST ran to its last statement
Responded == pc = "done" /\ failure = "" /\ ~queryRejected(query)

\* C3: a series query that fails is skipped: the request does not fail because of
\* it.
C3_SeriesFailureIsSkipped ==
    failure = "sibling" => response.kind # "thrown"

\* C4: once the embedding call or the primary query has failed, the request is
\* over with the thrown error as its outcome: no HTTP response, no passage
\* selected, no context, and no series query issued.
C4_FatalFailureAborts ==
    failure \in {"embed", "primary"} =>
        /\ pc = "done"
        /\ response = Thrown(failure)
        /\ calls.sibling = 0
        /\ chunks = <<>>
        /\ qualityChunks = <<>>
        /\ failure = "embed" => calls.primary = 0

\* the primary query failed after a successful embedding
C4_Witness ==
    /\ failure = "primary"
    /\ queryEmbedding # NoEmbedding
    /\ response.kind = "thrown"

IsScopeWord(reply) ==
    /\ reply.kind = "content"
    /\ toLowerCase(trim(reply.chars)) \in {StrNarrow, StrMedium, StrBroad}

\* C5: while the classifier's response is in reach (until the embedding call
\* settles): the scope is one of the three, it is medium when the call threw or
\* the reply is not one of the three words after trim and lower-casing, no error
\* has left POST, and the embedding call was started under the profile of that
\* scope (medium: 100 chunks).
C5_ClassifierFallsBackToMedium ==
    (clsCall.state = "done" /\ clsCall.reply # NoReply) =>
        /\ scope \in Scopes
        /\ ~IsScopeWord(clsCall.reply) => scope = "medium"
        /\ response.kind # "thrown" /\ failure = ""
        /\ pc = "embed" =>
             /\ budget = BUDGET_PROFILES[scope]
             /\ ~IsScopeWord(clsCall.reply) => budget.maxContextChunks = 100

\* the reply holds two of the words: not a scope, so medium, and the embedding
\* call is running
C5_Witness ==
    /\ pc = "embed"
    /\ clsCall.reply = ContentReply(StrBroad \o <<" ">> \o StrNarrow)
    /\ scope = "medium"
    /\ budget.topK = 120

IsEmptyExpansion(reply) ==
    \/ reply.kind \in {"throw", "null"}
    \/ reply.kind = "content" /\ reply.chars = <<>>

\* C6: while the expander's response is in reach: when the call threw or replied
\* nothing, expandQuery's result is the trimmed original query, no error has left
\* POST, and the text handed to the embedding client is that query.
C6_ExpanderFallsBackToQuery ==
    (expCall.state = "done" /\ IsEmptyExpansion(expCall.reply)) =>
        /\ expandedQuery = trim(query.chars)
        /\ response.kind # "thrown" /\ failure = ""
        /\ pc = "embed" => embedInput = trim(query.chars)

\* the expander threw for a padded query; its trimmed text is being embedded
C6_Witness ==
    /\ pc = "embed"
    /\ expCall.reply = ThrowReply
    /\ embedInput = StrGrace
    /\ query.chars # StrGrace

\* C7: a request that ran to the end with an empty passage list returned the
\* no-content response (HTTP 200 with the message), which is not a payload; a
\* payload never has an empty context or citation list; and after a primary
\* query without usable matches no series query is issued.
C7_EmptyListIsNoContent ==
    /\ (Responded /\ chunks = <<>>) =>
          /\ response = NoContentResponse
          /\ response.status = 200
          /\ response.error = "No relevant sermon content found"
    /\ IsPayload(response) =>
          /\ chunks # <<>>
          /\ response.context # <<>>
          /\ response.sources # <<>>
    /\ (calls.primary = 1 /\ pc # "primary" /\ failure = "" /\ allScoredChunks = <<>>) =>
          calls.sibling = 0

\* the primary query returned no usable match: no-content, and no series query
C7_Witness ==
    /\ Responded
    /\ response = NoContentResponse
    /\ calls.primary = 1
    /\ calls.sibling = 0

\* C8: once the caller has cancelled, no further external call is started.
C8_NoCallStartsAfterCancel ==
    [][cancelled => calls' = calls]_vars

\* C9: neither auxiliary call has finished unless both were started, and POST
\* awaits them only then; the embedding call is started only with both finished;
\* the primary query only with the embedding returned; a series query only with
\* the primary query returned and the cutoff applied to its result.
C9_StageOrder ==
    /\ (clsCall.state = "done" \/ expCall.state = "done" \/ pc = "aux") =>
          (clsCall.state # "idle" /\ expCall.state # "idle")
    /\ calls.embed > 0 => (clsCall.state = "done" /\ expCall.state = "done")
    /\ calls.primary > 0 =>
          (calls.embed = 1 /\ pc # "embed" /\ queryEmbedding = Embedding(embedInput))
    /\ calls.sibling > 0 =>
          /\ calls.primary = 1 /\ pc # "primary" /\ failure # "primary"
          /\ adaptiveCutoff = findAdaptiveCutoff(scoresOf(allScoredChunks),
                                                 budget.maxContextChunks)
          /\ qualityChunks = SubSeq(allScoredChunks, 1, adaptiveCutoff)

\* the second series query is in flight, after a cutoff that dropped matches
C9_Witness ==
    /\ pc = "sibling"
    /\ calls = [classifier |-> 1, expander |-> 1, embed |-> 1, primary |-> 1, sibling |-> 2]
    /\ adaptiveCutoff < Len(allScoredChunks)

----------------------------------------------------------------------------
(* Properties of the adaptive cutoff *)

\* max(8, ceil(0.3 * m)): the least k >= 8 with 10 k >= 3 m
ClaimedMinKeep(m) == CHOOSE k \in 8..(m + 8) : 10 * k >= 3 * m /\ (k = 8 \/ 10 * (k - 1) < 3 * m)
\* score[i-1] - score[i] for the JS index i
GapAt(scores, i) == scores[i] - scores[i + 1]

\* C10: for a list longer than minKeep, the result is the lowest index of
\* minKeep..length-1 whose gap is at least 0.03 and is the largest gap of that
\* range, and it is the length when no gap of the range reaches 0.03.
C10_CutAtFirstLargestGap ==
    (cutResult # -1 /\ Len(cutScores) > ClaimedMinKeep(cutMax)) =>
        LET n == Len(cutScores)
            range == ClaimedMinKeep(cutMax)..(n - 1)
        IN  IF \A i \in range : GapAt(cutScores, i) < 30
            THEN cutResult = n
            ELSE /\ cutResult \in range
                 /\ GapAt(cutScores, cutResult) >= 30
                 /\ \A j \in range : GapAt(cutScores, j) <= GapAt(cutScores, cutResult)
                 /\ \A j \in range : j < cutResult =>
                       GapAt(cutScores, j) < GapAt(cutScores, cutResult)

\* the cut is at a gap of exactly 0.03 that occurs again further on, while larger
\* gaps lie below minKeep
C10_Witness ==
    /\ cutResult # -1
    /\ Len(cutScores) > ClaimedMinKeep(cutMax)
    /\ cutResult < Len(cutScores) - 1
    /\ GapAt(cutScores, cutResult) = 30
    /\ GapAt(cutScores, cutResult + 1) = 30
    /\ GapAt(cutScores, ClaimedMinKeep(cutMax) - 1) = 31
    /\ GapAt(cutScores, 3) = 400

AllGaps(scores) == 1..(Len(scores) - 1)

\* C11: a list of at most minKeep = max(8, ceil(0.3 * maxContextChunks)) scores is
\* kept whole, whatever gaps it holds; so are the five scores with a drop of 0.37
\* under maxContextChunks = 100.
C11_ShortListKeptWhole ==
    /\ (cutResult # -1 /\ Len(cutScores) <= ClaimedMinKeep(cutMax)) =>
          cutResult = Len(cutScores)
    /\ (cutResult # -1 /\ cutMax = 100 /\ cutScores = <<910, 890, 870, 500, 480>>) =>
          cutResult = 5

\* a list of exactly minKeep scores, longer than 8, whose last gap is 0.37
C11_Witness ==
    /\ cutResult = Len(cutScores)
    /\ Len(cutScores) = ClaimedMinKeep(cutMax)
    /\ Len(cutScores) > 8
    /\ GapAt(cutScores, Len(cutScores) - 1) = 370

\* C12: when exactly one gap of the list is at least 0.03 (so none elsewhere is
\* as large) and it lies at an index i > minKeep, the result is i; forty scores of
\* 0.91 then forty of 0.50 under maxContextChunks = 100 are cut at 40.
C12_CutAtSingleGap ==
    /\ cutResult # -1 =>
          \A i \in AllGaps(cutScores) :
             ( /\ i > ClaimedMinKeep(cutMax)
               /\ GapAt(cutScores, i) >= 30
               /\ \A j \in AllGaps(cutScores) \ {i} : GapAt(cutScores, j) < 30 )
             => cutResult = i
    /\ (cutResult # -1 /\ cutMax = 100
          /\ cutScores = [i \in 1..80 |-> IF i <= 40 THEN 910 ELSE 500]) =>
          cutResult = 40

\* the only gap that reaches 0.03 is of exactly 0.03, two indexes above minKeep,
\* with smaller gaps around it
C12_Witness ==
    /\ cutResult = ClaimedMinKeep(cutMax) + 2
    /\ Len(cutScores) = ClaimedMinKeep(cutMax) + 4
    /\ GapAt(cutScores, cutResult) = 30
    /\ GapAt(cutScores, cutResult - 1) = 29
    /\ GapAt(cutScores, cutResult + 1) = 29
    /\ \A j \in AllGaps(cutScores) \ {cutResult} : GapAt(cutScores, j) < 30

\* C13: a descending list all of whose adjacent gaps are below 0.03 is kept whole,
\* whatever its length.
C13_SmoothListKeptWhole ==
    ( /\ cutResult # -1
      /\ \A i \in AllGaps(cutScores) :
            GapAt(cutScores, i) >= 0 /\ GapAt(cutScores, i) < 30 )
    => cutResult = Len(cutScores)

\* 150 scores, longer than any profile's maxContextChunks, each 0.029 below the
\* one before
C13_Witness ==
    /\ cutResult = 150
    /\ Len(cutScores) = 150
    /\ \A i \in AllGaps(cutScores) : GapAt(cutScores, i) = 29

----------------------------------------------------------------------------
(* Properties of the citations *)

\* the position in cs of the first passage of source s
FirstOf(cs, s) == CHOOSE i \in 1..Len(cs) :
                     cs[i].sermonID = s /\ \A j \in 1..(i - 1) : cs[j].sermonID # s

\* C14: in a payload, the citations' source IDs are pairwise distinct and are
\* exactly the source IDs of the final passage list: one citation per source,
\* none missing, none foreign.
C14_OneCitationPerSource ==
    IsPayload(response) =>
        LET srcs == response.sources
        IN  /\ \A k, l \in 1..Len(srcs) : srcs[k].sermonID = srcs[l].sermonID => k = l
            /\ { srcs[k].sermonID : k \in 1..Len(srcs) } = SermonIDsOf(chunks)
            /\ Len(srcs) = Cardinality(SermonIDsOf(chunks))
            /\ Len(response.context) = Len(chunks)

\* a payload whose list holds several passages of one source from the quality
\* set, three of one sibling source, and only two of another
C14_Witness ==
    /\ IsPayload(response)
    /\ Len(response.sources) >= 3
    /\ \E s \in SermonIDsOf(MainPortion) : CountOf(MainPortion, s) >= 4
    /\ \E s \in SermonIDsOf(SiblingPortion) : CountOf(SiblingPortion, s) = 3
    /\ \E s \in SermonIDsOf(SiblingPortion) : CountOf(SiblingPortion, s) = 2

\* C15: in a payload, each citation shows the title, preacher, date and reference
\* of the first passage of its source in the final list, and the citations stand
\* in the order in which their sources first occur in the list.
C15_FirstSeenMetadataWins ==
    IsPayload(response) =>
        LET srcs == response.sources
        IN  /\ \A k \in 1..Len(srcs) :
                 /\ srcs[k].sermonID \in SermonIDsOf(chunks)
                 /\ LET first == chunks[FirstOf(chunks, srcs[k].sermonID)]
                    IN  /\ srcs[k].title = first.title
                        /\ srcs[k].preacher = first.preacher
                        /\ srcs[k].preachDate = first.preachDate
                        /\ srcs[k].bibleText = first.bibleText
            /\ \A k, l \in 1..Len(srcs) :
                 k < l => FirstOf(chunks, srcs[k].sermonID) < FirstOf(chunks, srcs[l].sermonID)

\* a payload in which the last passage of the first cited source differs from
\* its first passage in title and date, and a second source is cited after it
C15_Witness ==
    /\ IsPayload(response)
    /\ Len(response.sources) >= 2
    /\ LET s == response.sources[1].sermonID
           last == CHOOSE i \in 1..Len(chunks) :
                     chunks[i].sermonID = s /\ \A j \in (i + 1)..Len(chunks) : chunks[j].sermonID # s
       IN  /\ chunks[1].sermonID = s
           /\ chunks[last].title # chunks[1].title
           /\ chunks[last].preachDate # chunks[1].preachDate
           /\ response.sources[1].title = chunks[1].title

----------------------------------------------------------------------------
(* Properties of the series expansion *)

\* C16: whatever the series queries returned so far, the sibling map has one
\* entry per source, none for a source of the quality set, each of at most 3
\* passages, all of that source; the flattened sibling list likewise holds no
\* passage of a quality-set source and at most 3 passages per source.
C16_SiblingsFreshAndCapped ==
    /\ \A k \in 1..Len(siblingsBySermon) :
          /\ siblingsBySermon[k][1] \notin SermonIDsOf(QualityMetadata)
          /\ Len(siblingsBySermon[k][2]) \in 1..3
          /\ SermonIDsOf(siblingsBySermon[k][2]) = {siblingsBySermon[k][1]}
          /\ \A l \in 1..Len(siblingsBySermon) :
                siblingsBySermon[k][1] = siblingsBySermon[l][1] => k = l
    /\ \A s \in SermonIDsOf(seriesSiblingChunks) :
          /\ s \notin SermonIDsOf(QualityMetadata)
          /\ CountOf(seriesSiblingChunks, s) <= 3

\* two series queries have returned, the second series first; a source stored
\* under both series has two passages of the first and one of the second in the
\* sibling list, and a source of the quality set has none
C16_Witness ==
    /\ pc = "mainFill"
    /\ calls.sibling = 2
    /\ topSeriesIDs = <<SeriesName[2], SeriesName[1]>>
    /\ \E s \in SermonIDsOf(seriesSiblingChunks) :
          /\ CountOf(seriesSiblingChunks, s) = 3
          /\ Cardinality({ i \in 1..Len(seriesSiblingChunks) :
                             /\ seriesSiblingChunks[i].sermonID = s
                             /\ seriesSiblingChunks[i].series = SeriesName[2] }) = 2
          /\ Cardinality({ i \in 1..Len(seriesSiblingChunks) :
                             /\ seriesSiblingChunks[i].sermonID = s
                             /\ seriesSiblingChunks[i].series = SeriesName[1] }) = 1
    /\ SermonIDsOf(QualityMetadata) = {1, 2}

\* the positions of cs at which a source occurs for the first time
FirstPositions(cs) ==
    { i \in 1..Len(cs) : \A j \in 1..(i - 1) : cs[j].sermonID # cs[i].sermonID }

\* the non-empty series of the first n distinct sources of cs, each source's
\* series being that of its first passage
ClaimedGroupings(cs, n) ==
    LET firsts == FirstPositions(cs)
        counted == { i \in firsts : Cardinality({ k \in firsts : k < i }) < n }
    IN  { cs[i].series : i \in counted } \ {""}

\* C17: the collected series are, without repetition, the non-empty series of the
\* first maxSermonsForSeries distinct sources of the quality set; the primary
\* query and every series query carry the query embedding and the profile's
\* topK; the k-th series query is filtered to the k-th collected series, so that
\* a request whose queries all succeed has queried each collected series once,
\* and never more than maxSermonsForSeries of them.
C17_SeriesOfFirstSources ==
    /\ pc \in {"series", "sibling"} =>
          /\ { topSeriesIDs[k] : k \in 1..Len(topSeriesIDs) }
                = ClaimedGroupings(QualityMetadata, budget.maxSermonsForSeries)
          /\ \A k, l \in 1..Len(topSeriesIDs) : topSeriesIDs[k] = topSeriesIDs[l] => k = l
    /\ pc = "primary" =>
          indexQuery = [vector |-> queryEmbedding, topK |-> budget.topK, filter |-> ""]
    /\ pc = "sibling" =>
          /\ calls.sibling = seriesIdx
          /\ indexQuery = [vector |-> queryEmbedding, topK |-> budget.topK,
                           filter |-> topSeriesIDs[seriesIdx]]
    /\ pc = "series" => calls.sibling = seriesIdx - 1
    /\ calls.sibling <= Len(topSeriesIDs)
    /\ calls.sibling <= budget.maxSermonsForSeries
    /\ (pc \in {"mainFill", "siblingFill"} \/ (Responded /\ calls.primary = 1)) =>
          calls.sibling = Len(topSeriesIDs)

\* the quality set has more sources than the limit, the sources beyond the limit
\* belong to the second series, and only the first series was collected and
\* queried
C17_Witness ==
    /\ pc = "series"
    /\ seriesIdx = 2
    /\ calls.sibling = 1
    /\ topSeriesIDs = <<SeriesName[1]>>
    /\ Cardinality(SermonIDsOf(QualityMetadata)) > budget.maxSermonsForSeries
    /\ \E i \in 1..Len(QualityMetadata) : QualityMetadata[i].series = SeriesName[2]
    /\ QualityMetadata[budget.maxSermonsForSeries + 1].series = SeriesName[2]

----------------------------------------------------------------------------
(* Properties of the allocation *)

RangeOf(cs) == { cs[i] : i \in 1..Len(cs) }

\* the positions of q that a per-source cap leaves: those with fewer than cap
\* earlier passages of the same source
WithinCap(q, cap) ==
    { i \in 1..Len(q) :
        Cardinality({ j \in 1..(i - 1) : q[j].sermonID = q[i].sermonID }) < cap }

\* the in-order selection of q that skips only passages beyond their source's cap
\* and stops once b passages are taken
CappedSelection(q, cap, b) ==
    LET within == WithinCap(q, cap)
        taken == { i \in within : Cardinality({ j \in within : j < i }) < b }
        idx == SelectSeq([i \in 1..Len(q) |-> i], LAMBDA i : i \in taken)
    IN  [k \in 1..Len(idx) |-> q[idx[k]]]

AllocationStarted == pc \in {"mainFill", "siblingFill", "respond"} \/ Responded
MainFillOver == (pc = "siblingFill" /\ loopIdx = 1) \/ pc = "respond"

\* C18: mainBudget is maxContextChunks - min(number of sibling passages,
\* siblingReserve); while the main fill runs the list holds quality passages of
\* the quality set only; when it has ended, and when the list is final, the list
\* starts with the capped in-order selection of the quality set up to mainBudget
\* and every entry after it is a sibling passage, of a source outside the
\* quality set.
C18_MainThenSiblings ==
    /\ AllocationStarted =>
          mainBudget = budget.maxContextChunks
                         - Min(Len(seriesSiblingChunks), budget.siblingReserve)
    /\ pc = "mainFill" =>
          /\ mainTaken = Len(chunks)
          /\ RangeOf(chunks) \subseteq RangeOf(QualityMetadata)
    /\ MainFillOver =>
          LET main == CappedSelection(QualityMetadata, budget.maxChunksPerSermon, mainBudget)
          IN  /\ Len(chunks) >= Len(main)
              /\ SubSeq(chunks, 1, Len(main)) = main
              /\ mainTaken = Len(main)
              /\ \A i \in (Len(main) + 1)..Len(chunks) :
                    /\ chunks[i] \in RangeOf(seriesSiblingChunks)
                    /\ chunks[i].sermonID \notin SermonIDsOf(QualityMetadata)

\* a final list whose main portion passed over passages of a source at its cap,
\* took later passages of other sources, stopped at a mainBudget below
\* maxContextChunks with quality passages left, and is followed by siblings
C18_Witness ==
    /\ pc = "respond"
    /\ mainTaken = mainBudget
    /\ mainBudget < budget.maxContextChunks
    /\ Len(chunks) > mainTaken
    /\ QualityMetadata[Len(QualityMetadata)] \notin RangeOf(chunks)
    /\ \E i \in 1..Len(QualityMetadata) :
          /\ QualityMetadata[i] \notin RangeOf(chunks)
          /\ CountOf(MainPortion, QualityMetadata[i].sermonID) = budget.maxChunksPerSermon
          /\ \E j \in (i + 1)..Len(QualityMetadata) : QualityMetadata[j] = chunks[mainTaken]

ListIsFinal == pc = "respond" \/ Responded

\* C19: when the sibling list is empty, mainBudget is maxContextChunks and the
\* final list is the capped in-order selection of the quality set up to
\* maxContextChunks: nothing is held back for siblings.
C19_NoSiblingsGivesBudgetBack ==
    /\ (AllocationStarted /\ seriesSiblingChunks = <<>>) =>
          mainBudget = budget.maxContextChunks
    /\ (ListIsFinal /\ calls.primary = 1 /\ seriesSiblingChunks = <<>>) =>
          chunks = CappedSelection(QualityMetadata, budget.maxChunksPerSermon,
                                   budget.maxContextChunks)

\* two series were queried and gave no sibling; the quality set, larger than
\* maxContextChunks, fills the list to the ceiling, beyond
\* maxContextChunks - siblingReserve
C19_Witness ==
    /\ pc = "respond"
    /\ calls.sibling = 2
    /\ seriesSiblingChunks = <<>>
    /\ Len(qualityChunks) > budget.maxContextChunks
    /\ Len(chunks) = budget.maxContextChunks
    /\ chunks = MainPortion

\* the quality set fits under maxContextChunks - siblingReserve and under the
\* per-source cap
QualityFits ==
    /\ Len(qualityChunks) <= budget.maxContextChunks - budget.siblingReserve
    /\ \A s \in SermonIDsOf(QualityMetadata) :
          CountOf(QualityMetadata, s) <= budget.maxChunksPerSermon

\* C20: when the quality set fits under maxContextChunks - siblingReserve and
\* under the per-source cap, the final list starts with all quality passages in
\* their order, whatever the series queries returned; and five usable matches
\* without a gap of 0.03, under the narrow profile (80 passages, 12 per source),
\* all pass the cutoff.
C20_FittingQualitySetKeptWhole ==
    /\ (ListIsFinal /\ calls.primary = 1 /\ QualityFits) =>
          /\ Len(chunks) >= Len(qualityChunks)
          /\ SubSeq(chunks, 1, Len(qualityChunks)) = QualityMetadata
    /\ ( /\ calls.primary = 1 /\ pc # "primary" /\ failure # "primary"
          /\ scope = "narrow"
          /\ Len(allScoredChunks) = 5
          /\ \A i \in 1..4 : allScoredChunks[i].score - allScoredChunks[i + 1].score < 30 )
       => ( /\ adaptiveCutoff = 5
            /\ qualityChunks = allScoredChunks
            /\ budget.maxContextChunks = 80 /\ budget.maxChunksPerSermon = 12 )

\* the five passages under the narrow profile, all in the final list in their
\* order, with sibling passages after them
C20_Witness ==
    /\ pc = "respond"
    /\ scope = "narrow"
    /\ Len(allScoredChunks) = 5
    /\ \A i \in 1..4 : allScoredChunks[i].score - allScoredChunks[i + 1].score < 30
    /\ SubSeq(chunks, 1, 5) = QualityMetadata
    /\ Len(chunks) > 5 + budget.siblingReserve

----------------------------------------------------------------------------
(* Further properties of the passage list *)

\* what identifies a passage record: its source and its position in the source
PassageId(c) == <<c.sermonID, c.chunkIndex>>

\* C22: in every state, no passage occurs twice in the list, no source has
\* passages in both portions of the list, and no passage occurs twice among the
\* collected siblings.
C22_NoPassageTwice ==
    /\ \A i, j \in 1..Len(chunks) : PassageId(chunks[i]) = PassageId(chunks[j]) => i = j
    /\ SermonIDsOf(MainPortion) \cap SermonIDsOf(SiblingPortion) = {}
    /\ \A i, j \in 1..Len(seriesSiblingChunks) :
          PassageId(seriesSiblingChunks[i]) = PassageId(seriesSiblingChunks[j]) => i = j

\* a final list that starts with chunk 0 of sermon 1, which both series queries
\* returned again, and ends with sibling passages of both series
C22_Witness ==
    /\ pc = "respond"
    /\ calls.sibling = 2
    /\ PassageId(chunks[1]) = <<1, 0>>
    /\ \E i, j \in (mainTaken + 1)..Len(chunks) :
          chunks[i].series = SeriesName[1] /\ chunks[j].series = SeriesName[2]

----------------------------------------------------------------------------
(* Properties of the auxiliary calls *)

ScopeChars == [narrow |-> StrNarrow, medium |-> StrMedium, broad |-> StrBroad]

\* the scope a classifier response stands for: its word, or medium
ClaimedScope(reply) ==
    IF IsScopeWord(reply)
    THEN CHOOSE sc \in Scopes : ScopeChars[sc] = toLowerCase(trim(reply.chars))
    ELSE "medium"

\* the text an expander response stands for: its trimmed content, or the query
ClaimedExpansion(q, reply) ==
    IF reply.kind = "content" /\ trim(reply.chars) # <<>> THEN trim(reply.chars) ELSE q

\* C23: while both responses are in reach (until the embedding call settles),
\* the scope is determined by the classifier's response alone and the expanded
\* text by the query and the expander's response alone, whatever the other call
\* did and in whichever order the two returned; a call that has not returned
\* has left its result untouched; and when the expander threw, the classifier
\* call was made.
C23_AuxiliaryCallsIndependent ==
    /\ (clsCall.state = "done" /\ clsCall.reply # NoReply) =>
          scope = ClaimedScope(clsCall.reply)
    /\ (expCall.state = "done" /\ expCall.reply # NoReply) =>
          expandedQuery = ClaimedExpansion(trim(query.chars), expCall.reply)
    /\ clsCall.state = "pending" => scope = ""
    /\ expCall.state = "pending" => expandedQuery = <<>>
    /\ expCall.reply = ThrowReply =>
          (calls.classifier = 1 /\ clsCall.state \in {"pending", "done"})
    /\ clsCall.reply = ThrowReply =>
          (calls.expander = 1 /\ expCall.state \in {"pending", "done"})

\* the classifier answered narrow first, then the expander threw: the scope is
\* still narrow and the embedding input is the trimmed query
C23_Witness ==
    /\ pc = "embed"
    /\ expCall.reply = ThrowReply
    /\ clsCall.reply = ContentReply(StrNarrow)
    /\ scope = "narrow"
    /\ budget = BUDGET_PROFILES["narrow"]
    /\ embedInput = StrGrace

----------------------------------------------------------------------------
(* Properties of the request as a whole *)

\* the body was read and its query is missing, not a string, or a string that
\* is empty after trimming
ClaimedInvalid ==
    /\ pc # "body" /\ failure # "body"
    /\ \/ query = JsUndefined
       \/ query.type # "string"
       \/ query.type = "string" /\ trim(query.chars) = <<>>

\* C24: a request whose query is missing, not a string or blank has ended with
\* HTTP 400 'Query is required', and no call to the auxiliary model, the
\* embedding client or the vector index was started for it; a request with any
\* other query is not answered 400.
C24_InvalidQueryIs400 ==
    /\ ClaimedInvalid =>
          /\ pc = "done"
          /\ response = ErrorResponse(400, "Query is required")
          /\ response.status = 400
          /\ calls = NoCalls
          /\ clsCall = IdleCall /\ expCall = IdleCall
    /\ response.status = 400 => ClaimedInvalid

\* a query of blanks only was rejected
C24_Witness ==
    /\ pc = "done"
    /\ query = JsString(<<" ", "\t">>)
    /\ response = ErrorResponse(400, "Query is required")
    /\ calls = NoCalls

----------------------------------------------------------------------------
(* The floor of the adaptive cutoff *)

\* C25: for every score list, the cut index c satisfies
\* min(length, minKeep) <= c <= length: the slice 0..c is a prefix of the list,
\* not empty unless the list is, and of at least minKeep scores when the list
\* has more than minKeep.
C25_CutBetweenFloorAndLength ==
    cutResult # -1 =>
        LET n == Len(cutScores)
            floor == ClaimedMinKeep(cutMax)
        IN  /\ Min(n, floor) <= cutResult
            /\ cutResult <= n
            /\ n > 0 => cutResult > 0
            /\ n > floor => cutResult >= floor

\* the cut is exactly at minKeep, at a gap of 0.031, although a gap of 0.4 lies
\* at index 3, below the floor
C25_Witness ==
    /\ cutResult = ClaimedMinKeep(cutMax)
    /\ Len(cutScores) = ClaimedMinKeep(cutMax) + 3
    /\ GapAt(cutScores, cutResult) = 31
    /\ GapAt(cutScores, 3) = 400

----------------------------------------------------------------------------
(* The no-content outcome *)

\* C26: the three profiles have siblingReserve < maxContextChunks and
\* maxChunksPerSermon >= 3; a request that ran to its end returned the
\* no-content response exactly when the primary query gave no usable match, and
\* otherwise returned a payload whose passage list starts with the first (top
\* scored) usable match.
C26_NoContentIffNoUsableMatch ==
    /\ \A sc \in Scopes :
          /\ BUDGET_PROFILES[sc].siblingReserve < BUDGET_PROFILES[sc].maxContextChunks
          /\ BUDGET_PROFILES[sc].maxChunksPerSermon >= 3
    /\ (Responded /\ calls.primary = 1) =>
          /\ response = NoContentResponse <=> allScoredChunks = <<>>
          /\ allScoredChunks # <<>> =>
                /\ IsPayload(response)
                /\ chunks # <<>>
                /\ chunks[1] = allScoredChunks[1].metadata
    /\ (pc \in {"siblingFill", "respond"} /\ allScoredChunks # <<>>) =>
          (chunks # <<>> /\ chunks[1] = allScoredChunks[1].metadata)

\* two usable matches, far fewer than minKeep: a payload that starts with the
\* top one
C26_Witness ==
    /\ Responded
    /\ Len(allScoredChunks) = 2
    /\ IsPayload(response)
    /\ chunks[1] = allScoredChunks[1].metadata
    /\ allScoredChunks[1].score > allScoredChunks[2].score

----------------------------------------------------------------------------
(* The sibling reserve *)

\* C27: in a final list, the sibling portion is the sibling list taken in order
\* up to the ceiling, no sibling being passed over: it has
\* min(siblings, maxContextChunks - main portion) passages, which is at least
\* min(siblings, siblingReserve) since the main portion stays within
\* maxContextChunks - min(siblings, siblingReserve).
C27_ReserveIsFloor ==
    (ListIsFinal /\ calls.primary = 1) =>
        LET reserved == Min(Len(seriesSiblingChunks), budget.siblingReserve)
        IN  /\ mainTaken <= budget.maxContextChunks - reserved
            /\ Len(SiblingPortion) >= reserved
            /\ Len(SiblingPortion)
                  = Min(Len(seriesSiblingChunks), budget.maxContextChunks - mainTaken)
            /\ SiblingPortion = SubSeq(seriesSiblingChunks, 1, Len(SiblingPortion))
            /\ Len(chunks) <= budget.maxContextChunks

\* not a ceiling: a short main portion, and more sibling passages than the
\* reserve in the final list
C27_Witness ==
    /\ pc = "respond"
    /\ mainTaken < mainBudget
    /\ Len(SiblingPortion) > budget.siblingReserve
    /\ Len(SiblingPortion) = Len(seriesSiblingChunks)

----------------------------------------------------------------------------
(* Termination and the number of external calls *)

\* the outcomes of a request
Is400 == response = ErrorResponse(400, "Query is required")
IsThrown == response.kind = "thrown" /\ response.stage = failure /\ failure # ""
IsNoContent == response = NoContentResponse
OutcomeCount ==
    Cardinality({ k \in {"400", "thrown", "no-content", "payload"} :
                    \/ k = "400" /\ Is400
                    \/ k = "thrown" /\ IsThrown
                    \/ k = "no-content" /\ IsNoContent
                    \/ k = "payload" /\ IsPayload(response) })

\* at most one call of each kind but the series queries, which are at most
\* maxSermonsForSeries; both auxiliary calls made once validation has passed;
\* nothing started after a failure
CallsBounded ==
    /\ calls.classifier <= 1 /\ calls.expander <= 1
    /\ calls.embed <= 1 /\ calls.primary <= 1
    /\ calls.sibling <= budget.maxSermonsForSeries
    /\ calls.embed = 1 => (calls.classifier = 1 /\ calls.expander = 1)
    /\ failure # "" => pc = "done"
    /\ pc # "done" => (response = NoResponse /\ OutcomeCount = 0)
    /\ pc = "done" => OutcomeCount = 1

\* C28: when every external call settles, the request ends, and stays ended,
\* with exactly one outcome: the 400 response, a thrown error, the no-content
\* response or a payload; throughout, it has made at most one classifier, one
\* expander, one embedding and one primary call and at most
\* maxSermonsForSeries series queries, none of them again after a failure.
C28_EndsWithOneOutcome ==
    /\ []CallsBounded
    /\ <>[](pc = "done" /\ OutcomeCount = 1)

\* a request ended with a payload after one call of each kind and two series
\* queries
C28_Witness ==
    /\ pc = "done"
    /\ IsPayload(response)
    /\ OutcomeCount = 1
    /\ calls = [classifier |-> 1, expander |-> 1, embed |-> 1, primary |-> 1, sibling |-> 2]

----------------------------------------------------------------------------
(* The login rate limit *)

\* C30: no address has more than MAX_ATTEMPTS failures recorded in one window,
\* that is, no more than 5 wrong passwords of one address are evaluated between
\* the first recorded failure and its reset time, also when login requests of
\* that address are handled at the same time.
C30_AtMostFiveWrongPerWindow ==
    \A i \in 1..Len(attempts) : attempts[i][2].count <= MAX_ATTEMPTS

----------------------------------------------------------------------------
(* Superseded submits of the search client *)

\* C29: an invocation of handleSubmit whose controller is no longer the current
\* one writes nothing: it sets no error, does not turn loading off, writes no
\* answer cache entry and overwrites neither the response nor the sources.
C29_SupersededSubmitWritesNothing == staleWrites = {}

----------------------------------------------------------------------------
(* Requests do not influence one another *)

LocalsOf(r) == IF r = current THEN RequestLocals ELSE parked[r]
\* what a request that has returned produced
OutcomeOf(r) ==
    [response |-> LocalsOf(r).response, scope |-> LocalsOf(r).scope,
     budget |-> LocalsOf(r).budget]

\* C21: no request changes the table of budget profiles; a request's scope is the
\* classification of the reply it was given and its budget the profile of that
\* scope, whatever the other requests did; and two requests that were given the
\* same replies return the same scope, budget profile, context and citations (or
\* the same error), in whatever order their steps and those of a third request
\* were taken.
C21_SameRepliesSameOutcome ==
    /\ profiles = BUDGET_PROFILES
    /\ \A r \in Requests :
          LocalsOf(r).budget # NoBudget =>
             /\ LocalsOf(r).scope = classifyQuery(scripts[r].classifier)
             /\ LocalsOf(r).budget = BUDGET_PROFILES[LocalsOf(r).scope]
    /\ \A a, b \in Requests :
          (LocalsOf(a).pc = "done" /\ LocalsOf(b).pc = "done" /\ scripts[a] = scripts[b])
             => OutcomeOf(a) = OutcomeOf(b)

\* the two requests with the same replies returned the same payload with sibling
\* passages, the second one after the first and the third request had returned
C21_Witness ==
    /\ current = 2
    /\ pc = "done"
    /\ IsPayload(response)
    /\ mainTaken < Len(chunks)
    /\ parked[1].pc = "done"
    /\ parked[1].response = response
    /\ parked[3].pc = "done"
    /\ parked[3].response # response
    /\ parked[3].scope # scope

====
